---- MODULE Spec2Model ----
(***************************************************************************)
(* A model of the WebAssembly text lexer (src/src/lexer.rs), the event     *)
(* parser built on it (src/src/wat.rs) and the driver loop                 *)
(* (src/src/main.rs).                                                      *)
(*                                                                         *)
(* The source is a tuple of bytes (0..255).  Positions are 0-based byte    *)
(* offsets as in the code, so the byte at offset p is src[p + 1].          *)
(* A Rust Result is a record [st, lx | P, val, err] whose st is "ok",      *)
(* "err" or "panic" (panic!, unreachable!, unimplemented!, a failed        *)
(* unwrap or assert).                                                      *)
(*                                                                         *)
(* A local binding `let r = e; body` of a result that is used more than    *)
(* once is written Only([r \in {e} |-> body]): the one value of the        *)
(* function whose domain is {e}.                                           *)
(***************************************************************************)
EXTENDS Integers, Sequences, FiniteSets, TLC

VARIABLES
  source,      \* the bytes given to WatLexer::new / WatParser::new
  lexer,       \* the WatLexer
  state,       \* WatParser.state
  func_depth,  \* WatParser.func_depth
  output,      \* the states returned by parse() so far
  aborted,     \* TRUE once a call has panicked
  lexErr,      \* the error of the last failed next(), NoError while none failed
  prev         \* the parser as it was when the last parse() was called

vars == <<source, lexer, state, func_depth, output, aborted, lexErr, prev>>

Only(f) == f[CHOOSE x \in DOMAIN f : TRUE]

(***************************************************************************)
(* Bounds of the inputs.                                                   *)
(***************************************************************************)
MaxPieces == 3
MaxStrPieces == 3
MaxTail == 3
MaxRun == 3
MaxCom == 5

(***************************************************************************)
(* lexer.rs: positions, tokens, errors.                                    *)
(***************************************************************************)
WatPosition(l, c, p) == [line |-> l, column |-> c, position |-> p]

NoPosition == WatPosition(0, 0, 0)

\* Option<WatToken>::None
NoToken == [ty |-> "None", start |-> NoPosition, end |-> NoPosition]

WatToken(ty, s, e) == [ty |-> ty, start |-> s, end |-> e]

WatTokenType ==
  {"End", "Keyword", "Unsigned", "Signed", "Float", "String", "ID",
   "OpenParen", "CloseParen", "Reserved"}

WatLexerError(m, l, c) == [message |-> m, line |-> l, column |-> c]

NoError == WatLexerError("", 0, 0)

\* WatLexer::new
NewLexer ==
  [token |-> NoToken, past_token |-> NoToken,
   position |-> 0, line |-> 1, line_start |-> 0]

LexOk(L, v) == [st |-> "ok", lx |-> L, val |-> v, err |-> NoError]

LexErr(L, e) == [st |-> "err", lx |-> L, val |-> NoToken, err |-> e]

LexPanic(L) == [st |-> "panic", lx |-> L, val |-> NoToken, err |-> NoError]

current_char(src, L) == src[L.position + 1]

current_position(L) == WatPosition(L.line, L.position - L.line_start, L.position)

eos(src, L) == L.position >= Len(src)

\* the cursor after next_char(); its result is InSource of the new cursor
Adv(L) == [L EXCEPT !.position = @ + 1]

InSource(src, L) == L.position < Len(src)

create_error(L, message) ==
  WatLexerError(message, L.line, L.position - L.line_start)

unexpected_char(L) == create_error(L, "Unexpected character")

unexpected_eos(L) == create_error(L, "Unexpected eos")

is_idchar_byte(ch) ==
  \/ ch >= 48 /\ ch <= 57
  \/ ch >= 65 /\ ch <= 90
  \/ ch >= 97 /\ ch <= 122
  \/ ch \in {33, 35, 36, 37, 38, 96, 42, 43, 45, 46, 47, 58, 60, 61, 62, 63,
             64, 92, 94, 95, 96, 126}

is_idchar(src, L) == is_idchar_byte(current_char(src, L))

is_hexdigit_byte(ch) ==
  \/ ch >= 48 /\ ch <= 57
  \/ ch >= 65 /\ ch <= 70
  \/ ch >= 97 /\ ch <= 102

is_hexdigit(src, L) == is_hexdigit_byte(current_char(src, L))

unwind(L) == [L EXCEPT !.position = @ - 1]

RECURSIVE skip_hexnum(_, _)
skip_hexnum(src, L) ==
  LET L1 == Adv(L)
      L2 == Adv(L1)
  IN  IF ~InSource(src, L1) THEN L1
      ELSE IF is_hexdigit(src, L1) THEN skip_hexnum(src, L1)
      ELSE IF current_char(src, L1) # 95 THEN L1
      ELSE IF ~InSource(src, L2) \/ ~is_hexdigit(src, L2) THEN unwind(L2)
      ELSE skip_hexnum(src, L2)

\* the \u{hexnum} branch of scan_string; L is on the 'u'
scan_string_unicode(src, L) ==
  LET L1 == Adv(L)
      L2 == Adv(L1)
      L3 == skip_hexnum(src, L2)
  IN  IF ~InSource(src, L1) THEN LexErr(L1, unexpected_eos(L1))
      ELSE IF current_char(src, L1) # 123 THEN LexErr(L1, unexpected_char(L1))
      ELSE IF ~InSource(src, L2) THEN LexErr(L2, unexpected_eos(L2))
      ELSE IF ~is_hexdigit(src, L2) THEN LexErr(L2, unexpected_char(L2))
      ELSE IF eos(src, L3) THEN LexErr(L3, unexpected_eos(L3))
      ELSE IF current_char(src, L3) # 125 THEN LexErr(L3, unexpected_char(L3))
      ELSE LexOk(L3, NoToken)

\* the single-character escapes: t n r " ' \ ; L is on the escape character
scan_string_simple_escape(src, L) == LexOk(Adv(L), NoToken)

\* the two-hex-digit branch of scan_string; L is on the first digit
scan_string_hex_escape(src, L) ==
  LET L1 == Adv(L)
  IN  IF ~is_hexdigit(src, L) THEN LexErr(L, unexpected_char(L))
      ELSE IF ~InSource(src, L1) THEN LexErr(L1, unexpected_eos(L1))
      ELSE IF ~is_hexdigit(src, L1) THEN LexErr(L1, unexpected_char(L1))
      ELSE LexOk(L1, NoToken)

\* the escape branch of scan_string; L is on the backslash
scan_string_escape(src, L) ==
  LET L1 == Adv(L)
      e  == current_char(src, L1)
  IN  IF ~InSource(src, L1) THEN LexErr(L1, unexpected_eos(L1))
      ELSE IF e = 117 THEN scan_string_unicode(src, L1)
      ELSE IF e \in {116, 110, 114, 34, 39, 92}
           THEN scan_string_simple_escape(src, L1)
      ELSE scan_string_hex_escape(src, L1)

IsContinuation(b) == b >= 128 /\ b < 192      \* (b & 0xC0) == 0x80

\* the UTF-8 branch of scan_string; L is on the lead byte ch >= 0x80
scan_string_utf8(src, L) ==
  LET ch == current_char(src, L)
      L1 == Adv(L)
      L2 == Adv(L1)
      L3 == Adv(L2)
  IN  IF IsContinuation(ch) THEN LexErr(L, unexpected_char(L))
      ELSE IF ch >= 248 THEN LexErr(L, unexpected_char(L))
      ELSE IF ~InSource(src, L1) THEN LexErr(L1, unexpected_eos(L1))
      ELSE IF ~IsContinuation(current_char(src, L1))
           THEN LexErr(L1, unexpected_char(L1))
      ELSE IF (ch \div 32) % 2 = 0 THEN LexOk(L1, NoToken)
      ELSE IF ~InSource(src, L2) THEN LexErr(L2, unexpected_eos(L2))
      ELSE IF ~IsContinuation(current_char(src, L2))
           THEN LexErr(L2, unexpected_char(L2))
      ELSE IF (ch \div 16) % 2 = 0 THEN LexOk(L2, NoToken)
      ELSE IF ~InSource(src, L3) THEN LexErr(L3, unexpected_eos(L3))
      ELSE IF ~IsContinuation(current_char(src, L3))
           THEN LexErr(L3, unexpected_char(L3))
      ELSE LexOk(L3, NoToken)

\* the loop of scan_string: one iteration from cursor L, start is the token start
RECURSIVE scan_string_loop(_, _, _)
scan_string_loop(src, L, start) ==
  LET L1 == Adv(L)
      ch == current_char(src, L1)
  IN  IF ~InSource(src, L1) THEN LexErr(L1, unexpected_eos(L1))
      ELSE IF ch = 34
           THEN LexOk(Adv(L1), WatToken("String", start, current_position(Adv(L1))))
      ELSE IF ch = 92
           THEN Only([r \in {scan_string_escape(src, L1)} |->
                  IF r.st = "ok" THEN scan_string_loop(src, r.lx, start) ELSE r])
      ELSE IF ch >= 128
           THEN Only([r \in {scan_string_utf8(src, L1)} |->
                  IF r.st = "ok" THEN scan_string_loop(src, r.lx, start) ELSE r])
      ELSE IF ch < 32 \/ ch = 127 THEN LexErr(L1, unexpected_char(L1))
      ELSE scan_string_loop(src, L1, start)

scan_string(src, L) == scan_string_loop(src, L, current_position(L))

is_digit_char(ch) == ch >= 48 /\ ch <= 57

is_hexdigit_char(ch) ==
  \/ ch >= 48 /\ ch <= 57
  \/ ch >= 65 /\ ch <= 90
  \/ ch >= 97 /\ ch <= 122

\* the Rust slice s[a..b] (0-based, b excluded)
Slice(s, a, b) == SubSeq(s, a + 1, b)

RECURSIVE is_num_loop(_, _, _)
is_num_loop(s, i, was_digit) ==
  IF i > Len(s) THEN was_digit
  ELSE IF ~is_digit_char(s[i])
       THEN IF was_digit /\ s[i] = 95 THEN is_num_loop(s, i + 1, FALSE) ELSE FALSE
  ELSE is_num_loop(s, i + 1, TRUE)

is_num(s) == is_num_loop(s, 1, FALSE)

RECURSIVE is_hexnum_loop(_, _, _)
is_hexnum_loop(s, i, was_digit) ==
  IF i > Len(s) THEN was_digit
  ELSE IF ~is_hexdigit_char(s[i])
       THEN IF was_digit /\ s[i] = 95 THEN is_hexnum_loop(s, i + 1, FALSE) ELSE FALSE
  ELSE is_hexnum_loop(s, i + 1, TRUE)

is_hexnum(s) == is_hexnum_loop(s, 1, FALSE)

is_number(s) ==
  IF Len(s) > 2 /\ s[1] = 48 /\ s[2] = 120
  THEN is_hexnum(Slice(s, 2, Len(s)))
  ELSE is_num(s)

\* while i < str.len() && str[i] is none of stops { i += 1 }
RECURSIVE ScanUntil(_, _, _)
ScanUntil(s, i, stops) ==
  IF i < Len(s) /\ s[i + 1] \notin stops THEN ScanUntil(s, i + 1, stops) ELSE i

\* the shared tail of is_hexfloat and is_float: the optional fraction from
\* offset i, then the exponent; marks is {P, p} or {E, e}
float_tail(s, i, marks, hex) ==
  LET j  == i + 1
      i2 == IF i < Len(s) /\ s[i + 1] = 46 THEN ScanUntil(s, j, marks) ELSE i
      frac_bad ==
        /\ i < Len(s) /\ s[i + 1] = 46
        /\ j < i2
        /\ ~(IF hex THEN is_hexnum(Slice(s, j, i2)) ELSE is_num(Slice(s, j, i2)))
      i3 == i2 + 1
      i4 == IF i3 < Len(s) /\ s[i3 + 1] \in {45, 43} THEN i3 + 1 ELSE i3
  IN  IF frac_bad THEN FALSE
      ELSE IF i2 < Len(s) /\ s[i2 + 1] \notin marks
           THEN i4 < Len(s) /\ is_num(Slice(s, i4, Len(s)))
      ELSE i2 = Len(s)

is_hexfloat(s) ==
  LET i == ScanUntil(s, 0, {46, 80, 112})
  IN  IF ~is_hexnum(Slice(s, 0, i)) THEN FALSE
      ELSE float_tail(s, i, {80, 112}, TRUE)

is_float(s) ==
  LET i0 == IF s[1] = 45 \/ s[1] = 43 THEN 1 ELSE 0
      i  == ScanUntil(s, i0, {46, 69, 101})
  IN  IF Len(s) = i0 + 3 /\ Slice(s, i0, Len(s)) \in {<<110, 97, 110>>, <<105, 110, 102>>}
      THEN TRUE
      ELSE IF /\ Len(s) > i0 + 6
              /\ Slice(s, i0, i0 + 6) = <<110, 97, 110, 58, 48, 120>>
              /\ is_hexnum(Slice(s, i0 + 6, Len(s)))
      THEN TRUE
      ELSE IF Len(s) > i0 + 2 /\ s[i0 + 1] = 48 /\ s[i0 + 2] = 120
      THEN is_hexfloat(Slice(s, i0 + 2, Len(s)))
      ELSE IF ~is_num(Slice(s, 0, i)) THEN FALSE
      ELSE float_tail(s, i, {69, 101}, FALSE)

\* while self.next_char() && self.is_idchar() {}
RECURSIVE scan_idchars(_, _)
scan_idchars(src, L) ==
  LET L1 == Adv(L)
  IN  IF InSource(src, L1) /\ is_idchar(src, L1) THEN scan_idchars(src, L1) ELSE L1

\* the reclassification of the run src[a..b] in scan_reserved
classify_reserved(src, a, b) ==
  IF src[a + 1] = 36 THEN "ID"
  ELSE IF (src[a + 1] = 43 \/ src[a + 1] = 45) /\ is_number(Slice(src, a + 1, b))
       THEN "Signed"
  ELSE IF is_number(Slice(src, a, b)) THEN "Unsigned"
  ELSE IF is_float(Slice(src, a, b)) THEN "Float"
  ELSE IF src[a + 1] >= 97 /\ src[a + 1] <= 122 THEN "Keyword"
  ELSE "Reserved"

scan_reserved(src, L) ==
  Only([L1 \in {scan_idchars(src, L)} |->
    LexOk(L1, WatToken(classify_reserved(src, L.position, L1.position),
                       current_position(L), current_position(L1)))])

has_next_char(src, L, ch) ==
  L.position + 1 < Len(src) /\ src[L.position + 2] = ch

\* the loop of skip_block_comment
RECURSIVE skip_block_comment_loop(_, _, _)
skip_block_comment_loop(src, L, depth) ==
  LET L1 == Adv(L)
      c  == current_char(src, L1)
  IN  IF ~InSource(src, L1)
      THEN LexErr(L1, create_error(L1, "Incomplete block comment"))
      ELSE IF c = 40 /\ has_next_char(src, L1, 59)
           THEN skip_block_comment_loop(src, L1, depth + 1)
      ELSE IF c = 59 /\ has_next_char(src, L1, 41)
           THEN IF depth - 1 = 0 THEN LexOk(Adv(Adv(L1)), NoToken)
                ELSE skip_block_comment_loop(src, L1, depth - 1)
      ELSE IF c = 10
           THEN skip_block_comment_loop(
                  src, [L1 EXCEPT !.line = @ + 1, !.line_start = L1.position + 1], depth)
      ELSE skip_block_comment_loop(src, L1, depth)

skip_block_comment(src, L) == skip_block_comment_loop(src, Adv(L), 1)

\* while self.next_char() && self.current_char() != 0x0A {}
RECURSIVE skip_line_comment_loop(_, _)
skip_line_comment_loop(src, L) ==
  LET L1 == Adv(L)
  IN  IF InSource(src, L1) /\ current_char(src, L1) # 10
      THEN skip_line_comment_loop(src, L1) ELSE L1

\* next_char(); line += 1; line_start = position
NewLine(L) ==
  [L EXCEPT !.position = @ + 1, !.line = @ + 1, !.line_start = L.position + 1]

skip_line_comment(src, L) ==
  LET L1 == skip_line_comment_loop(src, L)
  IN  IF ~eos(src, L1) /\ current_char(src, L1) = 10 THEN NewLine(L1) ELSE L1

RECURSIVE skip_spaces(_, _)
skip_spaces(src, L) ==
  LET c == current_char(src, L)
  IN  IF eos(src, L) THEN LexOk(L, NoToken)
      ELSE IF c \in {32, 9, 13} THEN skip_spaces(src, Adv(L))
      ELSE IF c = 10 THEN skip_spaces(src, NewLine(L))
      ELSE IF c = 40 /\ has_next_char(src, L, 59)
           THEN Only([r \in {skip_block_comment(src, L)} |->
                  IF r.st = "ok" THEN skip_spaces(src, r.lx) ELSE r])
      ELSE IF c = 59 /\ has_next_char(src, L, 59)
           THEN skip_spaces(src, skip_line_comment(src, L))
      ELSE LexOk(L, NoToken)

\* a paren token that leaves the cursor on the paren
scan_paren_in_place(L, ty) ==
  LexOk(L, WatToken(ty, current_position(L), current_position(L)))

\* the single-byte tokens ( and )
scan_paren(L, ty) ==
  LexOk(Adv(L), WatToken(ty, current_position(L), current_position(Adv(L))))

scan_next_token(src, L) ==
  Only([r \in {skip_spaces(src, L)} |->
    IF r.st # "ok" THEN r
    ELSE IF eos(src, r.lx)
         THEN LexOk(r.lx, WatToken("End", current_position(r.lx), current_position(r.lx)))
    ELSE IF current_char(src, r.lx) = 34 THEN scan_string(src, r.lx)
    ELSE IF current_char(src, r.lx) = 40 THEN scan_paren(r.lx, "OpenParen")
    ELSE IF current_char(src, r.lx) = 41 THEN scan_paren(r.lx, "CloseParen")
    ELSE IF is_idchar(src, r.lx) THEN scan_reserved(src, r.lx)
    ELSE LexErr(r.lx, unexpected_char(r.lx))])

\* WatLexer::next: mem::swap(token, past_token); token = Some(token)
next(src, L) ==
  Only([r \in {scan_next_token(src, L)} |->
    IF r.st # "ok" THEN r
    ELSE LexOk([r.lx EXCEPT !.token = r.val, !.past_token = L.token], r.val)])

current_token(L) == L.token

current_token_content(src, L) ==
  Slice(src, L.token.start.position, L.token.end.position)

\* WatLexer::rewind without self.past_token = None
rewind_keeps_history(L) ==
  IF L.past_token = NoToken \/ L.token = NoToken THEN LexPanic(L)
  ELSE LexOk([L EXCEPT !.position = L.token.start.position,
                       !.line = L.token.start.line,
                       !.line_start = L.token.start.position - L.token.start.column,
                       !.token = L.past_token,
                       !.past_token = L.token],
             NoToken)

\* WatLexer::rewind without the assignment to self.position
rewind_keeps_position(L) ==
  IF L.past_token = NoToken \/ L.token = NoToken THEN LexPanic(L)
  ELSE LexOk([L EXCEPT !.line = L.token.start.line,
                       !.line_start = L.token.start.position - L.token.start.column,
                       !.token = L.past_token,
                       !.past_token = NoToken],
             NoToken)

\* WatLexer::rewind
rewind(L) ==
  IF L.past_token = NoToken \/ L.token = NoToken THEN LexPanic(L)
  ELSE LexOk([L EXCEPT !.position = L.token.start.position,
                       !.line = L.token.start.line,
                       !.line_start = L.token.start.position - L.token.start.column,
                       !.token = L.past_token,
                       !.past_token = NoToken],
             NoToken)

(***************************************************************************)
(* wat.rs: values, numeric and string decoding.                            *)
(***************************************************************************)
\* Option<T>
None == [some |-> FALSE, v |-> <<>>]

Some(x) == [some |-> TRUE, v |-> x]

\* Option<u32>
NoneU32 == [some |-> FALSE, v |-> 0]

WatParserError(m, l, c) == [message |-> m, line |-> l, column |-> c]

\* the value of the hex digit ch, or -1 (char::to_digit(16))
HexValue(ch) ==
  IF ch >= 48 /\ ch <= 57 THEN ch - 48
  ELSE IF ch >= 65 /\ ch <= 70 THEN ch - 55
  ELSE IF ch >= 97 /\ ch <= 102 THEN ch - 87
  ELSE -1

\* a parsed u32 as its two 16-bit halves, hi * 65536 + lo
U32(hi, lo) == [hi |-> hi, lo |-> lo]

\* Option<u32> of a parsed number
NoNumber == [some |-> FALSE, v |-> U32(0, 0)]

\* u32::from_str_radix(s, radix) from digit i on, acc the value so far:
\* None on a byte that is no digit of the radix and on overflow of u32
RECURSIVE from_str_radix_loop(_, _, _, _)
from_str_radix_loop(s, i, radix, acc) ==
  LET d  == HexValue(s[i])
      lo == acc.lo * radix + d
      hi == acc.hi * radix + (lo \div 65536)
  IN  IF i > Len(s) THEN [some |-> TRUE, v |-> acc]
      ELSE IF d < 0 \/ d >= radix THEN NoNumber
      ELSE IF hi > 65535 THEN NoNumber
      ELSE from_str_radix_loop(s, i + 1, radix, U32(hi, lo % 65536))

\* u32::from_str_radix on ASCII bytes: an optional '+', then one digit or more
from_str_radix(s, radix) ==
  LET first == IF Len(s) > 0 /\ s[1] = 43 THEN 2 ELSE 1
  IN  IF first > Len(s) THEN NoNumber
      ELSE from_str_radix_loop(s, first, radix, U32(0, 0))

\* str::from_utf8(bytes).is_ok()
RECURSIVE valid_utf8(_, _)
valid_utf8(b, i) ==
  LET c  == b[i]
      n  == Len(b)
      cont(k) == i + k <= n /\ b[i + k] >= 128 /\ b[i + k] <= 191
      in(k, lo, hi) == i + k <= n /\ b[i + k] >= lo /\ b[i + k] <= hi
  IN  IF i > n THEN TRUE
      ELSE IF c < 128 THEN valid_utf8(b, i + 1)
      ELSE IF c >= 194 /\ c <= 223 THEN cont(1) /\ valid_utf8(b, i + 2)
      ELSE IF c = 224 THEN in(1, 160, 191) /\ cont(2) /\ valid_utf8(b, i + 3)
      ELSE IF c = 237 THEN in(1, 128, 159) /\ cont(2) /\ valid_utf8(b, i + 3)
      ELSE IF c >= 225 /\ c <= 239 THEN cont(1) /\ cont(2) /\ valid_utf8(b, i + 3)
      ELSE IF c = 240 THEN in(1, 144, 191) /\ cont(2) /\ cont(3) /\ valid_utf8(b, i + 4)
      ELSE IF c >= 241 /\ c <= 243
           THEN cont(1) /\ cont(2) /\ cont(3) /\ valid_utf8(b, i + 4)
      ELSE IF c = 244 THEN in(1, 128, 143) /\ cont(2) /\ cont(3) /\ valid_utf8(b, i + 4)
      ELSE FALSE

parse_hexnum_u32(bytes) ==
  IF ~valid_utf8(bytes, 1) THEN NoNumber ELSE from_str_radix(bytes, 16)

parse_u32(bytes) ==
  IF Len(bytes) > 2 /\ bytes[1] = 48 /\ bytes[1] = 120
  THEN parse_hexnum_u32(Slice(bytes, 2, Len(bytes)))
  ELSE IF ~valid_utf8(bytes, 1) THEN NoNumber
  ELSE from_str_radix(bytes, 10)

\* num >= 0x100, num >> 8 and num & 0xFF on the two halves
u32_ge_0x100(num) == num.hi > 0 \/ num.lo >= 256

u32_shr_8(num) == U32(num.hi \div 256, (num.lo \div 256) + (num.hi % 256) * 256)

u32_low_byte(num) == num.lo % 256

\* the loop of convert_u32_to_data, after the first push
RECURSIVE convert_u32_loop(_, _)
convert_u32_loop(num, result) ==
  IF u32_ge_0x100(num)
  THEN convert_u32_loop(u32_shr_8(num), Append(result, u32_low_byte(u32_shr_8(num))))
  ELSE result

\* Option<u32> -> Option<Data>
convert_u32_to_data(maybe_num) ==
  IF ~maybe_num.some THEN None
  ELSE Some(convert_u32_loop(maybe_num.v, <<u32_low_byte(maybe_num.v)>>))

\* the results of the decoders that can abort: [st, val]
DecOk(v) == [st |-> "ok", val |-> v]

DecPanic == [st |-> "panic", val |-> None]

parse_hexnum(bytes) ==
  IF ~(Len(bytes) > 0) THEN DecPanic
  ELSE IF Len(bytes) <= 8 THEN DecOk(convert_u32_to_data(parse_hexnum_u32(bytes)))
  ELSE DecPanic

parse_num(bytes) ==
  IF Len(bytes) > 2 /\ bytes[1] = 48 /\ bytes[1] = 120
  THEN parse_hexnum(Slice(bytes, 2, Len(bytes)))
  ELSE IF ~(Len(bytes) > 0) THEN DecPanic
  ELSE IF Len(bytes) <= 9 THEN DecOk(convert_u32_to_data(parse_u32(bytes)))
  ELSE DecPanic

\* Some((WatSign::Positive, vec![], 0))
parse_float(bytes) == Some([sign |-> "Positive", data |-> <<>>, power |-> 0])

\* char::from_u32(code).is_some()
is_char(code) ==
  /\ code.hi <= 16
  /\ ~(code.hi = 0 /\ code.lo >= 55296 /\ code.lo <= 57343)

\* char::encode_utf8
encode_utf8(u) ==
  LET code == u.hi * 65536 + u.lo
  IN
  IF code < 128 THEN <<code>>
  ELSE IF code < 2048 THEN <<192 + (code \div 64), 128 + (code % 64)>>
  ELSE IF code < 65536
       THEN <<224 + (code \div 4096), 128 + ((code \div 64) % 64), 128 + (code % 64)>>
  ELSE <<240 + (code \div 262144), 128 + ((code \div 4096) % 64),
         128 + ((code \div 64) % 64), 128 + (code % 64)>>

\* the loop of parse_string from offset i (0-based), result the bytes so far;
\* an index past the end of bytes, a failed unwrap or assert and panic!() abort
RECURSIVE parse_string_loop(_, _, _)
parse_string_loop(bytes, i, result) ==
  LET last   == Len(bytes) - 1
      ch     == bytes[i + 1]
      escape == bytes[i + 2]
      j      == i + 3
      k      == ScanUntil(bytes, j, {125})
      hexnum == parse_hexnum_u32(Slice(bytes, j, k))
  IN  IF ~(i < last)
      THEN IF valid_utf8(result, 1) THEN DecOk(result) ELSE DecPanic
      ELSE IF ch # 92 THEN parse_string_loop(bytes, i + 1, Append(result, ch))
      ELSE IF ~(i + 1 < Len(bytes)) THEN DecPanic
      ELSE IF escape = 116 THEN parse_string_loop(bytes, i + 2, Append(result, 9))
      ELSE IF escape = 110 THEN parse_string_loop(bytes, i + 2, Append(result, 10))
      ELSE IF escape = 114 THEN parse_string_loop(bytes, i + 2, Append(result, 13))
      ELSE IF escape \in {34, 39, 92}
           THEN parse_string_loop(bytes, i + 2, Append(result, escape))
      ELSE IF escape = 117
           THEN IF ~(i + 2 < Len(bytes)) \/ bytes[i + 3] # 123 THEN DecPanic
                ELSE IF ~(k < Len(bytes)) THEN DecPanic
                ELSE IF ~hexnum.some \/ ~is_char(hexnum.v) THEN DecPanic
                ELSE IF ~(k < last) THEN DecPanic
                ELSE parse_string_loop(bytes, k + 1, result \o encode_utf8(hexnum.v))
      ELSE DecPanic

parse_string(bytes) ==
  IF ~(Len(bytes) >= 2 /\ bytes[1] = 34 /\ bytes[Len(bytes)] = 34) THEN DecPanic
  ELSE parse_string_loop(bytes, 1, <<>>)

(***************************************************************************)
(* wat.rs: the parser.  P is [lexer, state, func_depth]; a method with     *)
(* &mut self returns the parser it leaves behind in P, also when it fails. *)
(***************************************************************************)
kw_module == <<109, 111, 100, 117, 108, 101>>
kw_import == <<105, 109, 112, 111, 114, 116>>
kw_func   == <<102, 117, 110, 99>>
kw_memory == <<109, 101, 109, 111, 114, 121>>
kw_shared == <<115, 104, 97, 114, 101, 100>>
kw_type   == <<116, 121, 112, 101>>
kw_param  == <<112, 97, 114, 97, 109>>
kw_result == <<114, 101, 115, 117, 108, 116>>
kw_local  == <<108, 111, 99, 97, 108>>
kw_export == <<101, 120, 112, 111, 114, 116>>
kw_i32    == <<105, 51, 50>>
kw_f32    == <<102, 51, 50>>
kw_f64    == <<102, 54, 52>>
pre_offset == <<111, 102, 102, 115, 101, 116, 61>>
pre_flags  == <<102, 108, 97, 103, 115, 61>>

\* WatParserState
StInitial == [kind |-> "Initial"]
StEnd == [kind |-> "End"]
StError(e) == [kind |-> "Error", error |-> e]
StStartModule(id) == [kind |-> "StartModule", id |-> id]
StEndModule == [kind |-> "EndModule"]
StImport(modname, fieldname, import) ==
  [kind |-> "Import", modname |-> modname, fieldname |-> fieldname, import |-> import]
StStartFunc(id, export_name, typeuse, locals) ==
  [kind |-> "StartFunc", id |-> id, export_name |-> export_name,
   typeuse |-> typeuse, locals |-> locals]
StEndFunc == [kind |-> "EndFunc"]
StCodeOperator(instruction, args, group, position) ==
  [kind |-> "CodeOperator", instruction |-> instruction, args |-> args,
   group |-> group, position |-> position]
StCodeOperatorEnd == [kind |-> "CodeOperatorEnd"]

WatTypeuse(id, params, results) == [id |-> id, params |-> params, results |-> results]

WatTypeuse_empty == WatTypeuse(None, <<>>, <<>>)

\* WatParser::new
NewParser == [lexer |-> NewLexer, state |-> StInitial, func_depth |-> NoneU32]

POk(P, v) == [st |-> "ok", P |-> P, val |-> v, err |-> NoError]

PErr(P, e) == [st |-> "err", P |-> P, val |-> FALSE, err |-> e]

PPanic(P) == [st |-> "panic", P |-> P, val |-> FALSE, err |-> NoError]

current_token_type(P) == P.lexer.token.ty

parser_current_token_content(src, P) == current_token_content(src, P.lexer)

\* WatParser::create_error
parser_create_error(P, message) ==
  WatParserError(message, P.lexer.token.start.line, P.lexer.token.start.column)

\* r?; Ok(v)
Then(r, v) == IF r.st = "ok" THEN POk(r.P, v) ELSE r

\* advance with the error of the lexer re-wrapped at the current token
advance_error_at_token(src, P) ==
  Only([r \in {next(src, P.lexer)} |->
    IF r.st = "ok" THEN POk([P EXCEPT !.lexer = r.lx], TRUE)
    ELSE PErr([P EXCEPT !.lexer = r.lx],
              parser_create_error(P, r.err.message))])

advance(src, P) ==
  Only([r \in {next(src, P.lexer)} |->
    IF r.st = "ok" THEN POk([P EXCEPT !.lexer = r.lx], TRUE)
    ELSE PErr([P EXCEPT !.lexer = r.lx],
              WatParserError(r.err.message, r.err.line, r.err.column))])

\* the message of the panic! in WatLexer::rewind
CannotRewind == "Cannot rewind more than once or at the stream start"

\* the step aborted by that panic
RewindPanic(P) ==
  [st |-> "panic", P |-> P, val |-> FALSE, err |-> WatParserError(CannotRewind, 0, 0)]

\* WatParser::rewind_token with self.lexer.rewind() called twice
rewind_token_twice(P) ==
  Only([r \in {rewind(P.lexer)} |->
    IF r.st # "ok" THEN RewindPanic(P)
    ELSE Only([r2 \in {rewind(r.lx)} |->
           IF r2.st = "ok" THEN POk([P EXCEPT !.lexer = r2.lx], TRUE)
           ELSE RewindPanic([P EXCEPT !.lexer = r.lx])])])

rewind_token(P) ==
  Only([r \in {rewind(P.lexer)} |->
    IF r.st = "ok" THEN POk([P EXCEPT !.lexer = r.lx], TRUE) ELSE RewindPanic(P)])

\* maybe_open_paren, maybe_close_paren: advance over a token of type ty
maybe_token(src, P, ty) ==
  IF current_token_type(P) = ty THEN Then(advance(src, P), TRUE)
  ELSE POk(P, FALSE)

maybe_open_paren(src, P) == maybe_token(src, P, "OpenParen")

\* expect_open_paren, expect_close_paren, expect_exact_keyword: r is the
\* result of the maybe_ call
expect(r, message) ==
  IF r.st # "ok" THEN r
  ELSE IF r.val THEN POk(r.P, TRUE)
  ELSE PErr(r.P, parser_create_error(r.P, message))

expect_open_paren(src, P) == expect(maybe_open_paren(src, P), "( is expected")

maybe_close_paren(src, P) == maybe_token(src, P, "CloseParen")

expect_close_paren(src, P) == expect(maybe_close_paren(src, P), ") is expected")

maybe_exact_keyword(src, P, keyword) ==
  IF current_token_type(P) = "Keyword"
     /\ parser_current_token_content(src, P) = keyword
  THEN Then(advance(src, P), TRUE)
  ELSE POk(P, FALSE)

expect_exact_keyword(src, P, keyword) ==
  expect(maybe_exact_keyword(src, P, keyword), "?? keyword is expected")

is_keyword(P) == current_token_type(P) = "Keyword"

get_keyword(src, P) ==
  IF is_keyword(P) THEN POk(P, parser_current_token_content(src, P))
  ELSE PErr(P, parser_create_error(P, "a keyword is expected"))

HasPrefix(content, prefix) ==
  Len(content) > Len(prefix) /\ Slice(content, 0, Len(prefix)) = prefix

is_memarg_flag(src, P) ==
  Only([r \in {get_keyword(src, P)} |->
    IF r.st # "ok" THEN r
    ELSE POk(P, HasPrefix(r.val, pre_offset) \/ HasPrefix(r.val, pre_flags))])

maybe_id(src, P) ==
  IF current_token_type(P) = "ID"
  THEN Then(advance(src, P), Some(parser_current_token_content(src, P)))
  ELSE POk(P, None)

read_id(src, P) ==
  Only([r \in {maybe_id(src, P)} |->
    IF r.st # "ok" THEN r
    ELSE IF r.val.some THEN POk(r.P, r.val.v)
    ELSE PErr(r.P, parser_create_error(r.P, "id is expected"))])

read_u32(src, P) ==
  IF current_token_type(P) # "Unsigned" THEN PPanic(P)
  ELSE Only([result \in {parse_u32(parser_current_token_content(src, P))} |->
    IF ~result.some THEN PErr(P, parser_create_error(P, "unable to read u32"))
    ELSE Then(advance(src, P), result.v)])

read_name(src, P) ==
  IF current_token_type(P) # "String" THEN PPanic(P)
  ELSE Only([name \in {parse_string(parser_current_token_content(src, P))} |->
    IF name.st # "ok" THEN PPanic(P)
    ELSE Then(advance(src, P), name.val)])

read_keyword(src, P) ==
  IF current_token_type(P) # "Keyword" THEN PPanic(P)
  ELSE Then(advance(src, P), parser_current_token_content(src, P))

read_limits(src, P) ==
  Only([r1 \in {read_u32(src, P)} |-> IF r1.st # "ok" THEN r1 ELSE
    IF current_token_type(r1.P) # "Unsigned"
    THEN POk(r1.P, [min |-> r1.val, max |-> NoNumber])
    ELSE
  Only([r2 \in {read_u32(src, r1.P)} |-> IF r2.st # "ok" THEN r2 ELSE
    POk(r2.P, [min |-> r1.val, max |-> [some |-> TRUE, v |-> r2.val]])])])

\* read_memtype after (shared
read_memtype_shared(src, P) ==
  Only([r2 \in {expect_exact_keyword(src, P, kw_shared)} |->
    IF r2.st # "ok" THEN r2 ELSE
  Only([r3 \in {read_limits(src, r2.P)} |-> IF r3.st # "ok" THEN r3 ELSE
    Then(expect_close_paren(src, r3.P), [limits |-> r3.val, shared |-> TRUE])])])

read_memtype(src, P) ==
  Only([r1 \in {maybe_open_paren(src, P)} |-> IF r1.st # "ok" THEN r1 ELSE
    IF r1.val THEN read_memtype_shared(src, r1.P)
    ELSE
  Only([r5 \in {read_limits(src, r1.P)} |-> IF r5.st # "ok" THEN r5 ELSE
    POk(r5.P, [limits |-> r5.val, shared |-> FALSE])])])

read_start_module(src, P) ==
  Only([r1 \in {advance(src, P)} |-> IF r1.st # "ok" THEN r1 ELSE
  Only([r2 \in {expect_open_paren(src, r1.P)} |-> IF r2.st # "ok" THEN r2 ELSE
  Only([r3 \in {expect_exact_keyword(src, r2.P, kw_module)} |->
    IF r3.st # "ok" THEN r3 ELSE
  Only([r4 \in {maybe_id(src, r3.P)} |-> IF r4.st # "ok" THEN r4 ELSE
    POk([r4.P EXCEPT !.state = StStartModule(r4.val)], TRUE)])])])])

read_memory_import(src, P) ==
  Only([r1 \in {advance(src, P)} |-> IF r1.st # "ok" THEN r1 ELSE
  Only([r2 \in {maybe_id(src, r1.P)} |-> IF r2.st # "ok" THEN r2 ELSE
  Only([r3 \in {read_memtype(src, r2.P)} |-> IF r3.st # "ok" THEN r3 ELSE
    POk(r3.P, [kind |-> "Memory", id |-> r2.val, memtype |-> r3.val])])])])

read_import(src, P) ==
  Only([r1 \in {advance(src, P)} |-> IF r1.st # "ok" THEN r1 ELSE
  Only([r2 \in {read_name(src, r1.P)} |-> IF r2.st # "ok" THEN r2 ELSE
  Only([r3 \in {read_name(src, r2.P)} |-> IF r3.st # "ok" THEN r3 ELSE
  Only([r4 \in {expect_open_paren(src, r3.P)} |-> IF r4.st # "ok" THEN r4 ELSE
  Only([r5 \in {get_keyword(src, r4.P)} |-> IF r5.st # "ok" THEN r5 ELSE
    IF r5.val # kw_memory THEN PPanic(r5.P) ELSE
  Only([r6 \in {read_memory_import(src, r5.P)} |-> IF r6.st # "ok" THEN r6 ELSE
  Only([r7 \in {expect_close_paren(src, r6.P)} |-> IF r7.st # "ok" THEN r7 ELSE
    expect_close_paren(
      src, [r7.P EXCEPT !.state = StImport(r2.val, r3.val, r6.val)])
  ])])])])])])])

read_valtype(src, P) ==
  Only([r1 \in {get_keyword(src, P)} |-> IF r1.st # "ok" THEN r1 ELSE
    IF r1.val \notin {kw_i32, kw_f64, kw_f32} THEN PPanic(P)
    ELSE Then(advance(src, P),
              IF r1.val = kw_i32 THEN "I32"
              ELSE IF r1.val = kw_f64 THEN "I64"
              ELSE "F32")])

\* while no_id && self.is_keyword() { read_valtype; push }: val is the valtypes
RECURSIVE read_more_valtypes(_, _, _, _)
read_more_valtypes(src, P, no_id, valtypes) ==
  IF ~(no_id /\ is_keyword(P)) THEN POk(P, valtypes)
  ELSE Only([r \in {read_valtype(src, P)} |-> IF r.st # "ok" THEN r ELSE
         read_more_valtypes(src, r.P, no_id, Append(valtypes, r.val))])

NoIdItems(valtypes) == [i \in 1..Len(valtypes) |-> [id |-> None, valtype |-> valtypes[i]]]

\* one (param ..) or (local ..) group after its keyword: [id] valtype+ ')' and
\* maybe_open_paren; val is [items, open]
read_group(src, P, allow_id) ==
  Only([r1 \in {IF allow_id THEN maybe_id(src, P) ELSE POk(P, None)} |->
    IF r1.st # "ok" THEN r1 ELSE
  Only([r2 \in {read_valtype(src, r1.P)} |-> IF r2.st # "ok" THEN r2 ELSE
  Only([r3 \in {read_more_valtypes(src, r2.P, ~r1.val.some, <<>>)} |->
    IF r3.st # "ok" THEN r3 ELSE
  Only([r4 \in {expect_close_paren(src, r3.P)} |-> IF r4.st # "ok" THEN r4 ELSE
  Only([r5 \in {maybe_open_paren(src, r4.P)} |-> IF r5.st # "ok" THEN r5 ELSE
    POk(r5.P, [items |-> <<[id |-> r1.val, valtype |-> r2.val]>>
                          \o NoIdItems(r3.val),
               open  |-> r5.val])])])])])])

\* while self.maybe_exact_keyword(keyword)? { group }: val is [items, open],
\* open = FALSE when a group was not followed by '(' (the early return)
RECURSIVE read_groups(_, _, _, _, _)
read_groups(src, P, keyword, allow_id, items) ==
  Only([r1 \in {maybe_exact_keyword(src, P, keyword)} |->
    IF r1.st # "ok" THEN r1 ELSE
    IF ~r1.val THEN POk(r1.P, [items |-> items, open |-> TRUE]) ELSE
  Only([r2 \in {read_group(src, r1.P, allow_id)} |-> IF r2.st # "ok" THEN r2 ELSE
    IF ~r2.val.open
    THEN POk(r2.P, [items |-> items \o r2.val.items, open |-> FALSE])
    ELSE read_groups(src, r2.P, keyword, allow_id, items \o r2.val.items)])])

Valtypes(items) == [i \in 1..Len(items) |-> [valtype |-> items[i].valtype]]

\* read_typeuse_after_open_paren from the params on; id is the (type id)
read_params_results(src, P, id) ==
  Only([r5 \in {read_groups(src, P, kw_param, TRUE, <<>>)} |->
    IF r5.st # "ok" THEN r5 ELSE
    IF ~r5.val.open
    THEN POk(r5.P, [typeuse |-> WatTypeuse(id, r5.val.items, <<>>),
                    keyword_expected |-> FALSE])
    ELSE
  Only([r6 \in {read_groups(src, r5.P, kw_result, FALSE, <<>>)} |->
    IF r6.st # "ok" THEN r6 ELSE
    POk(r6.P, [typeuse |-> WatTypeuse(id, r5.val.items, Valtypes(r6.val.items)),
               keyword_expected |-> r6.val.open])])])

\* read_typeuse_after_open_paren after the keyword type
read_type_id(src, P) ==
  Only([r2 \in {maybe_id(src, P)} |-> IF r2.st # "ok" THEN r2 ELSE
    IF ~r2.val.some
    THEN PErr(r2.P, parser_create_error(r2.P, "id is expected for typeuse"))
    ELSE
  Only([r3 \in {expect_close_paren(src, r2.P)} |-> IF r3.st # "ok" THEN r3 ELSE
  Only([r4 \in {maybe_open_paren(src, r3.P)} |-> IF r4.st # "ok" THEN r4 ELSE
    IF ~r4.val
    THEN POk(r4.P, [typeuse |-> WatTypeuse(r2.val, <<>>, <<>>),
                    keyword_expected |-> FALSE])
    ELSE read_params_results(src, r4.P, r2.val)])])])

\* val is [typeuse, keyword_expected]
read_typeuse_after_open_paren(src, P) ==
  Only([r1 \in {maybe_exact_keyword(src, P, kw_type)} |->
    IF r1.st # "ok" THEN r1
    ELSE IF r1.val THEN read_type_id(src, r1.P)
    ELSE read_params_results(src, r1.P, None)])

\* the callers of the _after_open_paren helpers without their rewind_token()
rewind_never(r) == r

\* if keyword_expected { self.rewind_token(); }: r.val is [.., keyword_expected]
rewind_if_expected(r) ==
  IF r.st # "ok" \/ ~r.val.keyword_expected THEN r
  ELSE Then(rewind_token(r.P), r.val)

read_typeuse(src, P) ==
  Only([r1 \in {maybe_open_paren(src, P)} |-> IF r1.st # "ok" THEN r1 ELSE
    IF ~r1.val THEN POk(r1.P, WatTypeuse_empty) ELSE
  Only([r2 \in {rewind_if_expected(read_typeuse_after_open_paren(src, r1.P))} |->
    IF r2.st # "ok" THEN r2 ELSE POk(r2.P, r2.val.typeuse)])])

\* val is [locals, keyword_expected]
read_locals_after_open_paren(src, P) ==
  Only([r \in {read_groups(src, P, kw_local, TRUE, <<>>)} |->
    IF r.st # "ok" THEN r
    ELSE POk(r.P, [locals |-> r.val.items, keyword_expected |-> r.val.open])])

\* read_func after (import: the inline import abbreviation
read_func_import(src, P, id) ==
  Only([r1 \in {read_name(src, P)} |-> IF r1.st # "ok" THEN r1 ELSE
  Only([r2 \in {read_name(src, r1.P)} |-> IF r2.st # "ok" THEN r2 ELSE
  Only([r3 \in {expect_close_paren(src, r2.P)} |-> IF r3.st # "ok" THEN r3 ELSE
  Only([r4 \in {read_typeuse(src, r3.P)} |-> IF r4.st # "ok" THEN r4 ELSE
  Only([r5 \in {expect_close_paren(src, r4.P)} |-> IF r5.st # "ok" THEN r5 ELSE
    POk([r5.P EXCEPT !.state =
           StImport(r1.val, r2.val, [kind |-> "Func", id |-> id, typeuse |-> r4.val])],
        TRUE)])])])])])

\* the end of read_func: self.state = StartFunc {..}; self.func_depth = Some(0)
start_func(P, id, export_name, typeuse, locals) ==
  POk([P EXCEPT !.state = StStartFunc(id, export_name, typeuse, locals),
                !.func_depth = [some |-> TRUE, v |-> 0]],
      TRUE)

\* read_func from read_typeuse_after_open_paren on
read_func_signature(src, P, id, export_name) ==
  Only([r1 \in {read_typeuse_after_open_paren(src, P)} |->
    IF r1.st # "ok" THEN r1 ELSE
    IF ~r1.val.keyword_expected
    THEN start_func(r1.P, id, export_name, r1.val.typeuse, <<>>)
    ELSE
  Only([r2 \in {rewind_if_expected(read_locals_after_open_paren(src, r1.P))} |->
    IF r2.st # "ok" THEN r2 ELSE
    start_func(r2.P, id, export_name, r1.val.typeuse, r2.val.locals)])])

\* read_func after (export: the name, ')' and the optional '('
read_func_export(src, P, id) ==
  Only([r1 \in {read_name(src, P)} |-> IF r1.st # "ok" THEN r1 ELSE
  Only([r2 \in {expect_close_paren(src, r1.P)} |-> IF r2.st # "ok" THEN r2 ELSE
  Only([r3 \in {maybe_open_paren(src, r2.P)} |-> IF r3.st # "ok" THEN r3 ELSE
    IF ~r3.val
    THEN POk([r3.P EXCEPT
                !.state = StStartFunc(id, Some(r1.val), WatTypeuse_empty, <<>>)],
             TRUE)
    ELSE read_func_signature(src, r3.P, id, Some(r1.val))])])])

\* read_func after the '(' that follows the optional id
read_func_after_open_paren(src, P, id) ==
  Only([r4 \in {maybe_exact_keyword(src, P, kw_import)} |->
    IF r4.st # "ok" THEN r4 ELSE
    IF r4.val THEN read_func_import(src, r4.P, id) ELSE
  Only([r5 \in {maybe_exact_keyword(src, r4.P, kw_export)} |->
    IF r5.st # "ok" THEN r5
    ELSE IF r5.val THEN read_func_export(src, r5.P, id)
    ELSE read_func_signature(src, r5.P, id, None)])])

read_func(src, P) ==
  Only([r1 \in {advance(src, P)} |-> IF r1.st # "ok" THEN r1 ELSE
  Only([r2 \in {maybe_id(src, r1.P)} |-> IF r2.st # "ok" THEN r2 ELSE
  Only([r3 \in {maybe_open_paren(src, r2.P)} |-> IF r3.st # "ok" THEN r3 ELSE
    IF ~r3.val THEN start_func(r3.P, r2.val, None, WatTypeuse_empty, <<>>)
    ELSE read_func_after_open_paren(src, r3.P, r2.val)])])])

read_memarg_flag(src, P) ==
  Only([r \in {read_keyword(src, P)} |->
    IF r.st # "ok" THEN r
    ELSE POk(r.P, [tag |-> "Flags", keyword |-> r.val, value |-> 0])])

read_arg_id(src, P) ==
  Only([r \in {read_id(src, P)} |->
    IF r.st # "ok" THEN r ELSE POk(r.P, [tag |-> "ID", id |-> r.val])])

read_arg_signed(src, P) ==
  Only([signed \in {parser_current_token_content(src, P)} |->
    IF ~(signed[1] = 45 \/ signed[1] = 43) THEN PPanic(P) ELSE
  Only([data \in {parse_num(Slice(signed, 1, Len(signed)))} |->
    IF data.st # "ok" THEN PPanic(P)
    ELSE IF ~data.val.some
         THEN PErr(P, parser_create_error(P, "Unable to parse signed"))
    ELSE Then(advance(src, P),
              [tag  |-> "Signed",
               sign |-> IF signed[1] = 45 THEN "Negative" ELSE "Positive",
               data |-> data.val.v])])])

read_arg_unsigned(src, P) ==
  Only([data \in {parse_num(parser_current_token_content(src, P))} |->
    IF data.st # "ok" THEN PPanic(P)
    ELSE IF ~data.val.some
         THEN PErr(P, parser_create_error(P, "Unable to parse unsigned"))
    ELSE Then(advance(src, P), [tag |-> "Unsigned", data |-> data.val.v])])

read_arg_float(src, P) ==
  Only([result \in {parse_float(parser_current_token_content(src, P))} |->
    IF ~result.some
    THEN PErr(P, parser_create_error(P, "Unable to parse float"))
    ELSE Then(advance(src, P), [tag |-> "Float", float |-> result.v])])

\* one arm of the match in the 'main loop that pushes an argument
read_arg(src, P) ==
  IF current_token_type(P) = "Keyword" THEN read_memarg_flag(src, P)
  ELSE IF current_token_type(P) = "ID" THEN read_arg_id(src, P)
  ELSE IF current_token_type(P) = "Signed" THEN read_arg_signed(src, P)
  ELSE IF current_token_type(P) = "Unsigned" THEN read_arg_unsigned(src, P)
  ELSE read_arg_float(src, P)

RECURSIVE read_args(_, _, _)

\* args.push(..) and the next iteration of the 'main loop; m is the result of
\* is_memarg_flag on a Keyword token, Ok(true) on the other argument tokens
push_arg(src, P, args, m) ==
  IF m.st # "ok" THEN m
  ELSE IF ~m.val THEN POk(P, args)
  ELSE Only([r \in {read_arg(src, P)} |->
         IF r.st # "ok" THEN r ELSE read_args(src, r.P, Append(args, r.val))])

\* the 'main loop of read_func_body: val is the args
read_args(src, P, args) ==
  IF current_token_type(P) \in {"End", "OpenParen", "CloseParen"} THEN POk(P, args)
  ELSE IF current_token_type(P) = "Keyword"
       THEN push_arg(src, P, args, is_memarg_flag(src, P))
  ELSE IF current_token_type(P) \in {"ID", "Signed", "Unsigned", "Float"}
       THEN push_arg(src, P, args, POk(P, TRUE))
  ELSE PErr(P, parser_create_error(P, "unexpected token in the instruction"))

\* read_func_body after a ')': EndFunc at depth 0, else CodeOperatorEnd
close_body(P) ==
  IF ~P.func_depth.some THEN PPanic(P)
  ELSE IF P.func_depth.v = 0
       THEN POk([P EXCEPT !.state = StEndFunc, !.func_depth = NoneU32], TRUE)
  ELSE POk([P EXCEPT !.state = StCodeOperatorEnd,
                     !.func_depth = [some |-> TRUE, v |-> P.func_depth.v - 1]],
           TRUE)

\* the end of read_func_body: if group { func_depth += 1 }; state = CodeOperator
code_operator(P, instruction, args, group, position) ==
  IF group /\ ~P.func_depth.some THEN PPanic(P)
  ELSE POk([P EXCEPT
              !.func_depth = IF group THEN [some |-> TRUE, v |-> P.func_depth.v + 1]
                             ELSE P.func_depth,
              !.state = StCodeOperator(instruction, args, group, position)],
           TRUE)

read_func_body(src, P) ==
  Only([r1 \in {maybe_close_paren(src, P)} |-> IF r1.st # "ok" THEN r1 ELSE
    IF r1.val THEN close_body(r1.P) ELSE
  Only([r2 \in {maybe_open_paren(src, r1.P)} |-> IF r2.st # "ok" THEN r2 ELSE
  Only([r3 \in {read_keyword(src, r2.P)} |-> IF r3.st # "ok" THEN r3 ELSE
  Only([r4 \in {read_args(src, r3.P, <<>>)} |-> IF r4.st # "ok" THEN r4 ELSE
    code_operator(r4.P, r3.val, r4.val, r2.val, r2.P.lexer.token.start)])])])])

read_module_field(src, P) ==
  Only([r1 \in {maybe_close_paren(src, P)} |-> IF r1.st # "ok" THEN r1 ELSE
    IF r1.val THEN POk([r1.P EXCEPT !.state = StEndModule], TRUE) ELSE
  Only([r2 \in {expect_open_paren(src, r1.P)} |-> IF r2.st # "ok" THEN r2 ELSE
  Only([r3 \in {get_keyword(src, r2.P)} |->
    IF r3.st # "ok" THEN r3
    ELSE IF r3.val = kw_import THEN read_import(src, r3.P)
    ELSE IF r3.val = kw_func THEN read_func(src, r3.P)
    ELSE PPanic(r3.P)])])])

\* find_end without the test of the current token
find_end_any_token(P) == POk([P EXCEPT !.state = StEnd], TRUE)

find_end(P) ==
  IF current_token_type(P) = "End" THEN POk([P EXCEPT !.state = StEnd], TRUE)
  ELSE PErr(P, parser_create_error(P, "unexpected content after the module"))

BodyStates == {"StartFunc", "CodeOperator", "CodeOperatorEnd"}

FieldStates == {"StartModule", "EndFunc", "Import"}

\* the match of WatParser::parse with the EndFunc arm moved to the body states
dispatch_EndFunc_as_body(src, P) ==
  IF P.state.kind \in {"End", "Error"} THEN PPanic(P)
  ELSE IF P.state.kind = "EndModule" THEN find_end(P)
  ELSE IF P.state.kind = "Initial" THEN read_start_module(src, P)
  ELSE IF P.state.kind \in {"StartModule", "Import"} THEN read_module_field(src, P)
  ELSE IF P.state.kind \in BodyStates \cup {"EndFunc"}
       THEN read_func_body(src, P)
  ELSE PPanic(P)

\* the match of WatParser::parse
dispatch(src, P) ==
  IF P.state.kind \in {"End", "Error"} THEN PPanic(P)
  ELSE IF P.state.kind = "EndModule" THEN find_end(P)
  ELSE IF P.state.kind = "Initial" THEN read_start_module(src, P)
  ELSE IF P.state.kind \in FieldStates THEN read_module_field(src, P)
  ELSE IF P.state.kind \in BodyStates THEN read_func_body(src, P)
  ELSE PPanic(P)

\* WatParser::parse without self.state = WatParserState::Error(..)
parse_keeps_state(src, P) ==
  Only([result \in {dispatch(src, P)} |->
    IF result.st = "err" THEN POk(result.P, TRUE) ELSE result])

\* WatParser::parse: an Err result becomes the Error state
parse(src, P) ==
  Only([result \in {dispatch(src, P)} |->
    IF result.st = "err"
    THEN POk([result.P EXCEPT !.state = StError(result.err)], TRUE)
    ELSE result])

(***************************************************************************)
(* The inputs.  A source is the lexemes of a sequence joined by one space. *)
(***************************************************************************)
lx_open  == <<40>>                      \* (
lx_close == <<41>>                      \* )
lx_nop   == <<110, 111, 112>>           \* nop
lx_id    == <<36, 120>>                 \* $x
lx_one   == <<49>>                      \* 1
lx_str   == <<34, 97, 34>>              \* "a"
lx_bad   == <<91>>                      \* [  (no token starts with it)
lx_i64   == <<105, 54, 52>>             \* i64

RECURSIVE Join(_)
Join(ls) ==
  IF ls = <<>> THEN <<>>
  ELSE IF Len(ls) = 1 THEN ls[1]
  ELSE ls[1] \o <<32>> \o Join(Tail(ls))

\* the sequences over S of length at most n
RECURSIVE SeqsUpTo(_, _)
SeqsUpTo(S, n) ==
  IF n = 0 THEN {<<>>}
  ELSE LET shorter == SeqsUpTo(S, n - 1)
       IN  shorter \cup {Append(q, x) : q \in shorter, x \in S}

HdModule == <<lx_open, kw_module>>
HdFunc   == HdModule \o <<lx_open, kw_func>>

\* the beginnings of the parser's inputs
Headers ==
  { <<>>,
    HdModule,
    HdModule \o <<lx_id>>,
    HdFunc,
    HdFunc \o <<lx_id>>,
    HdFunc \o <<lx_open, kw_export, lx_str, lx_close>>,
    HdFunc \o <<lx_open, kw_type, lx_id, lx_close>>,
    HdFunc \o <<lx_open, kw_param, kw_i32, lx_close>>,
    HdFunc \o <<lx_open, kw_result, kw_f32, lx_close>>,
    HdFunc \o <<lx_open, kw_local, kw_f64, lx_close>>,
    HdFunc \o <<lx_open, kw_param, lx_i64, lx_close>>,
    HdFunc \o <<lx_open, kw_import, lx_str, lx_str, lx_close>>,
    HdFunc \o <<lx_open, lx_nop>>,
    HdModule \o <<lx_open, kw_import, lx_str, lx_str, lx_open, kw_memory>>,
    HdModule \o <<lx_open, kw_import, lx_str, lx_str, lx_open, kw_memory, lx_one>> }

\* the lexemes that follow a beginning
TailLexemes == {lx_open, lx_close, lx_nop, lx_one, lx_str, kw_func, lx_bad}

ParserSources == {Join(h \o t) : h \in Headers, t \in SeqsUpTo(TailLexemes, MaxTail)}

(***************************************************************************)
(* main.rs: the driver calls parse() and prints the state it returns.      *)
(***************************************************************************)
Parser == [lexer |-> lexer, state |-> state, func_depth |-> func_depth]

Init ==
  /\ source \in ParserSources
  /\ lexer = NewLexer
  /\ state = StInitial
  /\ func_depth = NoneU32
  /\ output = <<>>
  /\ aborted = FALSE
  /\ lexErr = NoError
  /\ prev = NewParser

\* one call of WatParser::parse; a panic ends the process
Parse ==
  /\ ~aborted
  /\ \E r \in {parse(source, Parser)} :
       IF r.st = "panic"
       THEN /\ aborted' = TRUE
            /\ UNCHANGED <<lexer, state, func_depth, output>>
       ELSE /\ lexer' = r.P.lexer
            /\ state' = r.P.state
            /\ func_depth' = r.P.func_depth
            /\ output' = Append(output, r.P.state)
            /\ UNCHANGED aborted
  /\ prev' = Parser
  /\ UNCHANGED <<source, lexErr>>

Next == Parse

Spec == Init /\ [][Next]_vars

(***************************************************************************)
(* The lexer on its own: a client calls next() and rewind() in any order.  *)
(***************************************************************************)
RECURSIVE Concat(_)
Concat(ls) == IF ls = <<>> THEN <<>> ELSE ls[1] \o Concat(Tail(ls))

\* ( ) space LF a ;; (; ;) "a"
LexPieces ==
  { <<40>>, <<41>>, <<32>>, <<10>>, <<97>>, <<59, 59>>, <<40, 59>>, <<59, 41>>,
    <<34, 97, 34>> }

\* a \n \\ \" " \41 \u{41} LF
StrPieces ==
  { <<97>>, <<92, 110>>, <<92, 92>>, <<92, 34>>, <<34>>, <<92, 52, 49>>,
    <<92, 117, 123, 52, 49, 125>>, <<10>> }

LexSources ==
  {Concat(p) : p \in SeqsUpTo(LexPieces, MaxPieces)}
  \cup {<<34>> \o Concat(p) : p \in SeqsUpTo(StrPieces, MaxStrPieces)}

InitLex ==
  /\ source \in LexSources
  /\ lexer = NewLexer
  /\ state = StInitial
  /\ func_depth = NoneU32
  /\ output = <<>>
  /\ aborted = FALSE
  /\ lexErr = NoError
  /\ prev = NewParser

\* one call of WatLexer::next
LexNext ==
  /\ ~aborted
  /\ \E r \in {next(source, lexer)} :
       /\ lexer' = r.lx
       /\ lexErr' = IF r.st = "ok" THEN lexErr ELSE r.err
  /\ UNCHANGED <<source, state, func_depth, output, aborted, prev>>

\* one call of WatLexer::rewind; a panic ends the process
LexRewind ==
  /\ ~aborted
  /\ \E r \in {rewind(lexer)} :
       /\ lexer' = r.lx
       /\ aborted' = (r.st = "panic")
  /\ UNCHANGED <<source, state, func_depth, output, lexErr, prev>>

NextLex == LexNext \/ LexRewind

SpecLex == InitLex /\ [][NextLex]_vars

\* the lexer on one or two idchar runs: the inputs of scan_reserved
\* 1 0x1 a g _ .1 e1 E-1 e p1 p + - nan inf nan:0x $ ' space
RunPieces ==
  { <<49>>, <<48, 120, 49>>, <<97>>, <<103>>, <<95>>, <<46, 49>>,
    <<101, 49>>, <<69, 45, 49>>, <<101>>, <<112, 49>>, <<112>>,
    <<43>>, <<45>>, <<110, 97, 110>>, <<105, 110, 102>>,
    <<110, 97, 110, 58, 48, 120>>, <<36>>, <<39>>, <<32>> }

RunSources == {Concat(p) : p \in SeqsUpTo(RunPieces, MaxRun)}

InitRun ==
  /\ source \in RunSources
  /\ lexer = NewLexer
  /\ state = StInitial
  /\ func_depth = NoneU32
  /\ output = <<>>
  /\ aborted = FALSE
  /\ lexErr = NoError
  /\ prev = NewParser

SpecRun == InitRun /\ [][NextLex]_vars

\* the lexer on block comments: (; ;) ( ) ; a
ComPieces == { <<40, 59>>, <<59, 41>>, <<40>>, <<41>>, <<59>>, <<97>> }

ComSources == {Concat(p) : p \in SeqsUpTo(ComPieces, MaxCom)}

InitCom ==
  /\ source \in ComSources
  /\ lexer = NewLexer
  /\ state = StInitial
  /\ func_depth = NoneU32
  /\ output = <<>>
  /\ aborted = FALSE
  /\ lexErr = NoError
  /\ prev = NewParser

SpecCom == InitCom /\ [][NextLex]_vars

(***************************************************************************)
(* The properties.                                                         *)
(***************************************************************************)
Kinds(S) == {i \in 1..Len(output) : output[i].kind \in S}

\* C1: the states returned by successive parse() calls follow the dispatch
\* table: the first is StartModule or Error; Import, StartFunc and EndModule
\* come only from StartModule, EndFunc or Import; CodeOperator,
\* CodeOperatorEnd and EndFunc only from StartFunc, CodeOperator or
\* CodeOperatorEnd; End only from EndModule.
C1_DispatchTable ==
  [][output' # output =>
       /\ output = <<>> => state'.kind \in {"StartModule", "Error"}
       /\ state'.kind \in {"Import", "StartFunc", "EndModule"}
            => state.kind \in {"StartModule", "EndFunc", "Import"}
       /\ state'.kind \in {"CodeOperator", "CodeOperatorEnd", "EndFunc"}
            => state.kind \in {"StartFunc", "CodeOperator", "CodeOperatorEnd"}
       /\ state'.kind = "End" => state.kind = "EndModule"
       /\ state'.kind # "Initial"]_vars

\* a run through a whole module with a function: ( module ( func nop ) )
C1_Witness ==
  /\ state.kind = "End"
  /\ Kinds({"StartModule"}) # {} /\ Kinds({"StartFunc"}) # {}
  /\ Kinds({"CodeOperator"}) # {} /\ Kinds({"EndFunc"}) # {}
  /\ Kinds({"EndModule"}) # {}

\* C2: func_depth is defined (Some n) exactly when the state is StartFunc,
\* CodeOperator or CodeOperatorEnd, it is None in Initial, StartModule,
\* Import, EndFunc, EndModule and End, and it is Some(0) in every StartFunc.
C2_FuncDepthDefined ==
  /\ state.kind \in {"StartFunc", "CodeOperator", "CodeOperatorEnd"}
       => func_depth.some
  /\ state.kind \in {"Initial", "StartModule", "Import", "EndFunc", "EndModule", "End"}
       => ~func_depth.some
  /\ state.kind = "StartFunc" => func_depth = [some |-> TRUE, v |-> 0]

BodyKinds == {"StartFunc", "CodeOperator", "CodeOperatorEnd"}

\* the index in output of the last StartFunc
LastStartFunc ==
  CHOOSE i \in Kinds({"StartFunc"}) : \A j \in Kinds({"StartFunc"}) : j <= i

GroupsSinceStartFunc ==
  {i \in Kinds({"CodeOperator"}) : i > LastStartFunc /\ output[i].group}

EndsSinceStartFunc == {i \in Kinds({"CodeOperatorEnd"}) : i > LastStartFunc}

\* C3: inside a function body func_depth is the number of CodeOperator events
\* with group=true minus the number of CodeOperatorEnd events since the
\* StartFunc and is never negative; a body step on ')' yields CodeOperatorEnd
\* and decrements func_depth when it is > 0, yields EndFunc and clears it
\* when it is 0; a CodeOperator with group=false leaves func_depth unchanged.
C3_DepthCounts ==
  /\ state.kind \in BodyKinds =>
       /\ func_depth.some
       /\ Cardinality(GroupsSinceStartFunc) >= Cardinality(EndsSinceStartFunc)
       /\ func_depth.v =
            Cardinality(GroupsSinceStartFunc) - Cardinality(EndsSinceStartFunc)
  /\ ( /\ prev.state.kind \in BodyKinds
       /\ prev.lexer.token.ty = "CloseParen"
       /\ state.kind # "Error" ) =>
       /\ ~aborted
       /\ IF prev.func_depth.some /\ prev.func_depth.v > 0
          THEN /\ state.kind = "CodeOperatorEnd"
               /\ func_depth = [some |-> TRUE, v |-> prev.func_depth.v - 1]
          ELSE /\ state.kind = "EndFunc"
               /\ func_depth = NoneU32
  /\ (state.kind = "CodeOperator" /\ ~state.group) => func_depth = prev.func_depth

\* C4: a step from a non-terminal state returns a state, the next event or
\* Error(e); it never aborts.
C4_StepNeverAborts ==
  aborted => prev.state.kind \in {"End", "Error"}

\* lex.next(); a = lex.current(); lex.rewind(); lex.next() on the lexer L:
\* when the first next() succeeds, rewind() and the second next() succeed and
\* the second token has the kind, the start and the end of a
RewindRepeats(L) ==
  LET first == next(source, L)
      back  == rewind(first.lx)
      again == next(source, back.lx)
  IN  first.st = "ok" =>
        /\ back.st = "ok"
        /\ again.st = "ok"
        /\ again.val = first.val

\* C5 as stated: rewind idempotence in every lexer state, the freshly
\* constructed lexer included.
C5_RewindAnyState == ~aborted => RewindRepeats(lexer)

\* C5: rewind idempotence in every lexer state that holds a current token,
\* that is, after at least one successful next().
C5_RewindAfterFirstToken ==
  (~aborted /\ lexer.token # NoToken) => RewindRepeats(lexer)

\* the lexer after next(), next(), rewind() on a source whose second token
\* is on line 2: the cursor is back at the start of that token
C5_Witness ==
  /\ ~aborted
  /\ lexErr = NoError
  /\ lexer.token.ty = "Keyword"
  /\ lexer.past_token = NoToken
  /\ lexer.position > lexer.token.end.position
  /\ next(source, lexer).st = "ok"
  /\ next(source, lexer).val.start.line = 2

\* the tokens of src in order, up to the End token or the first lexer error
RECURSIVE TokensFrom(_, _)
TokensFrom(src, L) ==
  LET r == next(src, L)
  IN  IF r.st # "ok" THEN <<>>
      ELSE IF r.val.ty = "End" THEN <<r.val>>
      ELSE <<r.val>> \o TokensFrom(src, r.lx)

\* the place of the token tok in the tokens toks, 0 when it is none of them
TokenIndex(toks, tok) ==
  IF \E k \in 1..Len(toks) : toks[k] = tok
  THEN CHOOSE k \in 1..Len(toks) : toks[k] = tok
  ELSE 0

EventKinds ==
  {"StartModule", "Import", "StartFunc", "CodeOperator", "CodeOperatorEnd",
   "EndFunc", "EndModule"}

\* the token tok ends an instruction: it is no argument
EndsInstruction(tok) ==
  \/ tok.ty \in {"End", "OpenParen", "CloseParen"}
  \/ /\ tok.ty = "Keyword"
     /\ LET content == Slice(source, tok.start.position, tok.end.position)
        IN  ~HasPrefix(content, pre_offset) /\ ~HasPrefix(content, pre_flags)

\* the current token is toks[k], the last step started at toks[j] (j = 0
\* for the first step) and returned state: k is one past the tokens of that
\* event, and the lexer goes on with toks[k + 1]
PastTheEvent(toks, j, k) ==
  /\ k > j
  /\ lexer.token.ty # "End" =>
       LET r == next(source, lexer)
       IN  IF k < Len(toks) THEN r.st = "ok" /\ r.val = toks[k + 1]
           ELSE r.st = "err"
  /\ state.kind = "StartModule" =>
       j = 0 /\ k = 3 + (IF state.id.some THEN 1 ELSE 0)
  /\ state.kind \in {"EndModule", "EndFunc", "CodeOperatorEnd"} =>
       k = j + 1 /\ toks[j].ty = "CloseParen"
  /\ state.kind = "CodeOperator" =>
       /\ k = j + (IF state.group THEN 1 ELSE 0) + 1 + Len(state.args)
       /\ toks[j].ty = (IF state.group THEN "OpenParen" ELSE "Keyword")
       /\ state.position = toks[k - Len(state.args) - 1].start
       /\ EndsInstruction(toks[k])
  /\ state.kind = "StartFunc" =>
       /\ toks[j].ty = "OpenParen"
       /\ toks[k - 1].ty # "OpenParen"
  /\ state.kind = "Import" => toks[k - 1].ty = "CloseParen"
  /\ ( /\ prev.state.kind = "StartFunc"
       /\ toks[j].ty = "OpenParen"
       /\ toks[j + 1].ty = "Keyword" ) =>
       /\ state.kind = "CodeOperator"
       /\ state.group
       /\ state.position = toks[j + 1].start

C7_ErrorNotPartialEvent ==
  /\ (output # <<>> /\ ~aborted) =>
       LET result == dispatch(source, prev)
       IN  result.st = "err" =>
             /\ state = StError(result.err)
             /\ output[Len(output)] = state
  /\ \A i \in 1..Len(output) : output[i].kind = "Error" => i = Len(output)
  /\ output # <<>> => state = output[Len(output)]

\* read_import had stored the Import when the outer ')' was missing:
\* ( module ( import "a" "a" ( memory 1 ) nop
C7_Witness ==
  /\ ~aborted
  /\ state.kind = "Error"
  /\ state.error.message = ") is expected"
  /\ dispatch(source, prev).st = "err"
  /\ dispatch(source, prev).P.state.kind = "Import"

\* C8: a step from StartModule, EndFunc or Import whose upcoming tokens are
\* '(' and a keyword other than import or func returns Error(e).
C8_OtherFieldIsError ==
  ( /\ prev.state.kind \in {"StartModule", "EndFunc", "Import"}
    /\ prev.lexer.token.ty = "OpenParen"
    /\ next(source, prev.lexer).st = "ok"
    /\ next(source, prev.lexer).val.ty = "Keyword"
    /\ current_token_content(source, next(source, prev.lexer).lx)
         \notin {kw_import, kw_func} ) =>
    (~aborted /\ state.kind = "Error")

\* C9: calling parse() repeatedly from Initial reaches a terminal state, End
\* or Error, after finitely many steps: the calls stop only in a terminal
\* state, every step that returns a state other than Error leaves the lexer
\* at a later token than it found it, and a next() that returns a token other
\* than End moves the cursor forward.
C9_ReachesTerminal ==
  /\ aborted => state.kind \in {"End", "Error"}
  /\ (~aborted /\ output # <<>> /\ state.kind # "Error") =>
       LET toks == TokensFrom(source, NewLexer)
       IN  TokenIndex(toks, lexer.token) > TokenIndex(toks, prev.lexer.token)
  /\ LET r == next(source, lexer)
     IN  (r.st = "ok" /\ r.val.ty # "End") => r.lx.position > lexer.position

\* the offset after the hexnum (hex digits, single '_' between them) that
\* starts at offset i of src, -1 when none starts there
RECURSIVE HexnumEnd(_, _)
HexnumEnd(src, i) ==
  IF ~(i < Len(src) /\ is_hexdigit_byte(src[i + 1])) THEN -1
  ELSE IF i + 1 < Len(src) /\ src[i + 2] = 95 THEN HexnumEnd(src, i + 2)
  ELSE IF i + 1 < Len(src) /\ is_hexdigit_byte(src[i + 2]) THEN HexnumEnd(src, i + 1)
  ELSE i + 1

\* the length of the escape whose backslash is at offset i of src: 2 for
\* \t \n \r \" \' \\, 3 for two hex digits, the length of \u{hexnum}, and -1
\* when no escape is there
EscapeLen(src, i) ==
  IF ~(i + 1 < Len(src)) THEN -1
  ELSE IF src[i + 2] \in {116, 110, 114, 34, 39, 92} THEN 2
  ELSE IF src[i + 2] = 117
       THEN IF i + 2 < Len(src) /\ src[i + 3] = 123
               /\ HexnumEnd(src, i + 3) >= 0
               /\ HexnumEnd(src, i + 3) < Len(src)
               /\ src[HexnumEnd(src, i + 3) + 1] = 125
            THEN HexnumEnd(src, i + 3) + 1 - i
            ELSE -1
  ELSE IF is_hexdigit_byte(src[i + 2]) /\ i + 2 < Len(src)
          /\ is_hexdigit_byte(src[i + 3])
       THEN 3
  ELSE -1

\* the end of the string literal whose contents go on at offset i of src: one
\* past the first '"' that is not part of an escape, -1 when the contents are
\* not valid (ASCII contents only)
RECURSIVE StringEnd(_, _)
StringEnd(src, i) ==
  IF ~(i < Len(src)) THEN -1
  ELSE IF src[i + 1] = 34 THEN i + 1
  ELSE IF src[i + 1] = 92
       THEN IF EscapeLen(src, i) < 0 THEN -1
            ELSE StringEnd(src, i + EscapeLen(src, i))
  ELSE IF src[i + 1] < 32 \/ src[i + 1] >= 127 THEN -1
  ELSE StringEnd(src, i + 1)

\* C10: when the lexer is at the opening '"' of a string literal with valid
\* contents, next() returns the String token that starts at that '"' and
\* ends one byte past the first '"' that is not part of an escape; every
\* escape takes exactly its own bytes.
C10_StringTokenSpan ==
  (~aborted /\ lexErr = NoError) =>
    LET at == skip_spaces(source, lexer)
        p  == at.lx.position
        r  == next(source, lexer)
    IN  ( /\ at.st = "ok"
          /\ p < Len(source)
          /\ source[p + 1] = 34
          /\ StringEnd(source, p + 1) >= 0 ) =>
          /\ r.st = "ok"
          /\ r.val.ty = "String"
          /\ r.val.start.position = p
          /\ r.val.end.position = StringEnd(source, p + 1)


(***************************************************************************)
(* The number and float grammar of the text format, as the classification  *)
(* of idchar runs is specified against it.                                  *)
(***************************************************************************)
GDigits == 48..57
GHexDigits == (48..57) \cup (65..70) \cup (97..102)

\* one or more digits of D, with '_' only singly between two digits
GDigitRun(s, D) ==
  /\ Len(s) > 0
  /\ \A i \in 1..Len(s) : s[i] \in D \/ s[i] = 95
  /\ s[1] \in D /\ s[Len(s)] \in D
  /\ \A i \in 1..(Len(s) - 1) : ~(s[i] = 95 /\ s[i + 1] = 95)

GNum(s) == GDigitRun(s, GDigits)
GHexnum(s) == GDigitRun(s, GHexDigits)

GHasPrefix(s, p) == Len(s) > Len(p) /\ SubSeq(s, 1, Len(p)) = p
GAfter(s, n) == SubSeq(s, n + 1, Len(s))

GNumber(s) == (GHasPrefix(s, <<48, 120>>) /\ GHexnum(GAfter(s, 2))) \/ GNum(s)

\* the first index of a byte of marks in s, 0 when there is none
GFirst(s, marks) ==
  IF \E i \in 1..Len(s) : s[i] \in marks
  THEN CHOOSE i \in 1..Len(s) : s[i] \in marks /\ \A j \in 1..(i - 1) : s[j] \notin marks
  ELSE 0

\* digits ['.' [digits]]
GMantissa(s, D) ==
  LET dot == GFirst(s, {46})
  IN  IF dot = 0 THEN GDigitRun(s, D)
      ELSE /\ GDigitRun(SubSeq(s, 1, dot - 1), D)
           /\ (dot = Len(s) \/ GDigitRun(GAfter(s, dot), D))

\* [sign] num
GExponent(s) ==
  IF Len(s) > 0 /\ s[1] \in {43, 45} THEN GNum(GAfter(s, 1)) ELSE GNum(s)

\* mantissa [mark exponent]
GMantissaExp(s, D, marks) ==
  LET m == GFirst(s, marks)
  IN  IF m = 0 THEN GMantissa(s, D)
      ELSE GMantissa(SubSeq(s, 1, m - 1), D) /\ GExponent(GAfter(s, m))

GSpecial(s) ==
  \/ s \in {<<110, 97, 110>>, <<105, 110, 102>>}
  \/ GHasPrefix(s, <<110, 97, 110, 58, 48, 120>>) /\ GHexnum(GAfter(s, 6))

GSigned(s) == Len(s) > 0 /\ s[1] \in {43, 45}

\* a float without a sign, or a signed nan / inf / nan:0x..
GFloat(s) ==
  \/ GSpecial(s)
  \/ GSigned(s) /\ GSpecial(GAfter(s, 1))
  \/ GHasPrefix(s, <<48, 120>>) /\ GMantissaExp(GAfter(s, 2), GHexDigits, {80, 112})
  \/ ~GSigned(s) /\ GMantissaExp(s, GDigits, {69, 101})

\* the kind the six rules give to a run, in their order
GKind(run) ==
  IF run[1] = 36 THEN "ID"
  ELSE IF GSigned(run) /\ GNumber(GAfter(run, 1)) THEN "Signed"
  ELSE IF GNumber(run) THEN "Unsigned"
  ELSE IF GFloat(run) THEN "Float"
  ELSE IF run[1] \in 97..122 THEN "Keyword"
  ELSE "Reserved"

RunKinds == {"ID", "Signed", "Unsigned", "Float", "Keyword", "Reserved"}

\* the lexer holds the token of an idchar run
HoldsRun == ~aborted /\ lexer.token # NoToken /\ lexer.token.ty \in RunKinds

\* a signed run that is neither a signed number nor a signed nan / inf: the
\* grammar of signed hex and decimal floats is left out of the comparison
GSignedOther(run) ==
  GSigned(run) /\ ~GNumber(GAfter(run, 1)) /\ ~GSpecial(GAfter(run, 1))

\* C11: the kind of every idchar-run token is the kind of the first matching
\* rule: '$' -> ID, sign and number -> Signed, number -> Unsigned, float ->
\* Float, lowercase first byte -> Keyword, otherwise Reserved.
C11_FirstMatchingRule ==
  HoldsRun =>
    LET run == current_token_content(source, lexer)
    IN  ~GSignedOther(run) => lexer.token.ty = GKind(run)

\* a run  mantissa mark rest  over the digits D: [mantissa is well formed,
\* rest is an exponent]; <<FALSE, FALSE>> when the run holds no mark
GSplitExp(s, D, marks) ==
  LET m == GFirst(s, marks)
  IN  IF m = 0 THEN <<FALSE, FALSE>>
      ELSE <<GMantissa(SubSeq(s, 1, m - 1), D), GExponent(GAfter(s, m))>>

GExpParts(run) ==
  IF GHasPrefix(run, <<48, 120>>)
  THEN GSplitExp(GAfter(run, 2), GHexDigits, {80, 112})
  ELSE IF GSigned(run) THEN <<FALSE, FALSE>>
  ELSE GSplitExp(run, GDigits, {69, 101})

\* C12: a decimal run num ['.' [num]] (e|E) [sign] num and a hex run
\* 0x hexnum ['.' [hexnum]] (p|P) [sign] num are classified Float; a run whose
\* exponent mark is not followed by [sign] num is not classified Float.
C12_ExponentIsFloat ==
  HoldsRun =>
    LET parts == GExpParts(current_token_content(source, lexer))
    IN  /\ (parts[1] /\ parts[2]) => lexer.token.ty = "Float"
        /\ (parts[1] /\ ~parts[2]) => lexer.token.ty # "Float"

\* the body of a run 0x body, sign 0x body, nan:0x body or sign nan:0x body
\* of the given kind; <<>> when the run and kind are none of these
GHexBody(run, ty) ==
  LET rest == IF GSigned(run) THEN GAfter(run, 1) ELSE run
  IN  IF ty = (IF GSigned(run) THEN "Signed" ELSE "Unsigned")
         /\ GHasPrefix(rest, <<48, 120>>)
      THEN GAfter(rest, 2)
      ELSE IF ty = "Float" /\ GHasPrefix(rest, <<110, 97, 110, 58, 48, 120>>)
      THEN GAfter(rest, 6)
      ELSE <<>>

\* C13: a run 0x body is Unsigned, a run sign 0x body is Signed and a run
\* nan:0x body is Float only if body is a hexnum over [0-9A-Fa-f] with '_'
\* singly between two hex digits.
C13_HexnumDigits ==
  HoldsRun =>
    LET body == GHexBody(current_token_content(source, lexer), lexer.token.ty)
    IN  body # <<>> => GHexnum(body)

\* ASCII letters, digits and ! # $ % & ' * + - . / : < = > ? @ \ ^ _ ` ~
GIdchars ==
  (48..57) \cup (65..90) \cup (97..122)
  \cup {33, 35, 36, 37, 38, 39, 42, 43, 45, 46, 47, 58, 60, 61, 62, 63, 64,
        92, 94, 95, 96, 126}

\* the first offset from a on whose byte is no idchar, Len(src) if none
RECURSIVE GRunEnd(_, _)
GRunEnd(src, a) ==
  IF a < Len(src) /\ src[a + 1] \in GIdchars THEN GRunEnd(src, a + 1) ELSE a

\* C14: a reserved scan starts on and continues over exactly the idchar
\* bytes (letters, digits and the 22 symbols): the token of a run ends at the
\* first non-idchar byte after its start, and next() rejects a byte as
\* unexpected only if it is no idchar.
C14_IdcharRun ==
  /\ HoldsRun => lexer.token.end.position = GRunEnd(source, lexer.token.start.position)
  /\ ~aborted =>
       LET r == next(source, lexer)
       IN  (r.st = "err" /\ r.err.message = "Unexpected character")
             => source[r.lx.position + 1] \notin GIdchars

RECURSIVE GCommentEnd(_, _, _)
GCommentEnd(src, i, depth) ==
  IF i >= Len(src) THEN -1
  ELSE IF i + 1 < Len(src) /\ src[i + 1] = 40 /\ src[i + 2] = 59
       THEN GCommentEnd(src, i + 2, depth + 1)
  ELSE IF i + 1 < Len(src) /\ src[i + 1] = 59 /\ src[i + 2] = 41
       THEN IF depth = 1 THEN i + 2 ELSE GCommentEnd(src, i + 2, depth - 1)
  ELSE GCommentEnd(src, i + 1, depth)

\* C16: when the cursor is on the (; of a block comment with balanced
\* markers, the skip of the comment succeeds and leaves the cursor on the
\* byte after the ;) that closes the outermost (;.
C16_CommentNesting ==
  ( /\ ~aborted
    /\ lexErr = NoError
    /\ ~eos(source, lexer)
    /\ current_char(source, lexer) = 40
    /\ has_next_char(source, lexer, 59)
    /\ GCommentEnd(source, lexer.position + 2, 1) >= 0 ) =>
    LET r == skip_block_comment(source, lexer)
    IN  /\ r.st = "ok"
        /\ r.lx.position = GCommentEnd(source, lexer.position + 2, 1)

\* the value of the hex digits s, most significant first
RECURSIVE GHexNumber(_)
GHexNumber(s) ==
  IF s = <<>> THEN 0
  ELSE 16 * GHexNumber(SubSeq(s, 1, Len(s) - 1)) + HexValue(s[Len(s)])

GSimpleEscape(ch) ==
  IF ch = 116 THEN 9 ELSE IF ch = 110 THEN 10 ELSE IF ch = 114 THEN 13 ELSE ch

\* the decoding of the bytes s between the quotes of a literal from index i
\* on: [ok, val], ok = FALSE when s is no sequence of bytes and escapes
RECURSIVE GDecode(_, _, _)
GDecode(s, i, out) ==
  IF i > Len(s) THEN [ok |-> TRUE, val |-> out]
  ELSE IF s[i] # 92 THEN GDecode(s, i + 1, Append(out, s[i]))
  ELSE IF i + 1 > Len(s) THEN [ok |-> FALSE, val |-> out]
  ELSE IF s[i + 1] \in {116, 110, 114, 34, 39, 92}
       THEN GDecode(s, i + 2, Append(out, GSimpleEscape(s[i + 1])))
  ELSE IF s[i + 1] = 117
       THEN LET close == GFirst(GAfter(s, i + 2), {125})
                digits == SubSeq(s, i + 3, i + 1 + close)
            IN  IF i + 2 > Len(s) \/ s[i + 2] # 123 \/ close < 2
                   \/ ~GHexnum(digits) \/ Len(digits) > 3
                THEN [ok |-> FALSE, val |-> out]
                ELSE GDecode(s, i + 2 + close + 1,
                             out \o encode_utf8(U32(0, GHexNumber(digits))))
  ELSE IF i + 2 <= Len(s) /\ s[i + 1] \in GHexDigits /\ s[i + 2] \in GHexDigits
       THEN GDecode(s, i + 3, Append(out, GHexNumber(SubSeq(s, i + 1, i + 2))))
  ELSE [ok |-> FALSE, val |-> out]

\* C17: the decoding of every String token the lexer returns does not abort,
\* and it yields the bytes outside escapes unchanged, the byte of each
\* single-character escape, the UTF-8 encoding of each \u{HEX} and the raw
\* byte of each two-hex-digit escape.
C17_NameDecoding ==
  (~aborted /\ lexer.token # NoToken /\ lexer.token.ty = "String") =>
    LET content == current_token_content(source, lexer)
        d == parse_string(content)
        g == GDecode(SubSeq(content, 2, Len(content) - 1), 1, <<>>)
    IN  /\ d.st = "ok"
        /\ g.ok => d.val = g.val

\* C18: End is returned only by the step from EndModule and only when the
\* token after the module's closing ')' is the End token; with any other token
\* there the step from EndModule returns Error.
C18_EndOnlyAfterModule ==
  /\ \A i \in 1..Len(output) :
       output[i].kind = "End" => (i > 1 /\ output[i - 1].kind = "EndModule")
  /\ (~aborted /\ output # <<>> /\ prev.state.kind = "EndModule") =>
       IF prev.lexer.token.ty = "End"
       THEN state.kind = "End"
       ELSE /\ state.kind = "Error"
            /\ state.error.message = "unexpected content after the module"
  /\ (~aborted /\ state.kind = "End") =>
       /\ prev.state.kind = "EndModule"
       /\ prev.lexer.token.ty = "End"
       /\ prev.lexer.past_token.ty = "CloseParen"

\* ( module ) nop: the step from EndModule has returned Error
C18_Witness ==
  /\ ~aborted
  /\ Len(output) > 1
  /\ output[Len(output) - 1].kind = "EndModule"
  /\ prev.lexer.token.ty = "Keyword"
  /\ state.kind = "Error"
  /\ state.error.message = "unexpected content after the module"

\* the lexer L put back to the end of its current token, the fresh lexer
\* when it holds none: where a next() that follows the token begins
LastEnd(L) ==
  IF L.token = NoToken THEN NewLexer
  ELSE [L EXCEPT !.position = L.token.end.position,
                 !.line = L.token.end.line,
                 !.line_start = L.token.end.position - L.token.end.column]

\* the last call of next() in the last step failed: the lexer is as the
\* failing next() after the current token leaves it
NextFailedInStep ==
  LET r == next(source, LastEnd(lexer))
  IN  /\ r.st = "err"
      /\ r.lx = lexer
      /\ (lexer.position > LastEnd(lexer).position \/ prev.state.kind = "Initial")

\* C19: a step in which the lexer's next() fails with an error of message m
\* at line l, column c returns Error(e) with e.message = m, e.line = l and
\* e.column = c.
C19_LexerErrorPropagates ==
  (~aborted /\ output # <<>> /\ NextFailedInStep) =>
    LET e == next(source, LastEnd(lexer)).err
    IN  /\ state.kind = "Error"
        /\ output[Len(output)] = state
        /\ state.error.message = e.message
        /\ state.error.line = e.line
        /\ state.error.column = e.column

\* a '[' after ( module ( func: the step from StartModule has failed in the
\* lexer at column 16
C19_Witness ==
  /\ ~aborted
  /\ output # <<>>
  /\ NextFailedInStep
  /\ prev.state.kind = "StartModule"
  /\ state.kind = "Error"
  /\ state.error.message = "Unexpected character"
  /\ state.error.column > 0

\* the value type a valtype keyword stands for
GValtype(content) ==
  IF content = <<105, 51, 50>> THEN "I32"
  ELSE IF content = <<105, 54, 52>> THEN "I64"
  ELSE IF content = <<102, 51, 50>> THEN "F32"
  ELSE IF content = <<102, 54, 52>> THEN "F64"
  ELSE "none"

\* the value types of the valtype keywords among the tokens toks of src
GValtypes(src, toks) ==
  LET IsValtype(t) == GValtype(Slice(src, t.start.position, t.end.position)) # "none"
      sel == SelectSeq(toks, IsValtype)
  IN  [i \in 1..Len(sel) |->
         GValtype(Slice(src, sel[i].start.position, sel[i].end.position))]

\* the value types of the params, results and locals of a StartFunc event
EventValtypes(ev) ==
  [i \in 1..Len(ev.typeuse.params) |-> ev.typeuse.params[i].valtype]
  \o [i \in 1..Len(ev.typeuse.results) |-> ev.typeuse.results[i].valtype]
  \o [i \in 1..Len(ev.locals) |-> ev.locals[i].valtype]

\* C20: the step that reads a func header with param, result or local
\* groups does not abort on a valtype keyword, and the StartFunc it returns
\* holds I32, I64, F32, F64 for the keywords i32, i64, f32, f64.
C20_ValtypeMapping ==
  prev.state.kind = "StartModule" =>
    LET vts == GValtypes(source, TokensFrom(source, NewLexer))
    IN  vts # <<>> =>
          /\ ~aborted
          /\ state.kind = "StartFunc" => EventValtypes(state) = vts

\* the number of LF bytes among the first n bytes of src
RECURSIVE GLinesBefore(_, _)
GLinesBefore(src, n) ==
  IF n = 0 THEN 0
  ELSE GLinesBefore(src, n - 1) + (IF src[n] = 10 THEN 1 ELSE 0)

\* the offset just after the last LF among the first n bytes of src, 0 if none
RECURSIVE GLineStart(_, _)
GLineStart(src, n) ==
  IF n = 0 THEN 0
  ELSE IF src[n] = 10 THEN n
  ELSE GLineStart(src, n - 1)

\* C21: the token of a successful next(), also after a rewind, starts at line
\* 1 + the number of LF bytes before its start offset and at the column that
\* is its start offset minus the offset just after the last LF before it.
C21_LineAndColumn ==
  (~aborted /\ lexErr = NoError) =>
    LET r == next(source, lexer)
    IN  r.st = "ok" =>
          /\ r.val.start.line = 1 + GLinesBefore(source, r.val.start.position)
          /\ r.val.start.column =
               r.val.start.position - GLineStart(source, r.val.start.position)

\* rewind() on the lexer L is rejected and leaves L as it is
RewindRejected(L) == rewind(L).st = "panic" /\ rewind(L).lx = L

\* C25: after a successful next() that followed another token, rewind() makes
\* the previous token current, puts position, line and line_start at the start
\* of the token it rewinds and keeps no history, so that a second rewind() is
\* rejected; a rewind() on a lexer that retains no previous token is rejected
\* and does not move the cursor.
C25_RewindOneStep ==
  ~aborted =>
    /\ LET n == next(source, lexer)
           r == rewind(n.lx)
       IN  n.st = "ok" =>
             IF lexer.token = NoToken THEN RewindRejected(n.lx)
             ELSE /\ r.st = "ok"
                  /\ r.lx.token = lexer.token
                  /\ r.lx.past_token = NoToken
                  /\ r.lx.position = n.val.start.position
                  /\ r.lx.line = n.val.start.line
                  /\ r.lx.line_start = n.val.start.position - n.val.start.column
                  /\ RewindRejected(r.lx)
    /\ lexer.past_token = NoToken => RewindRejected(lexer)

\* the lexer after ( LF a and a rewind: '(' is current again, the cursor is
\* at the start of a on line 2, and a further rewind is rejected
C25_Witness ==
  /\ ~aborted
  /\ lexErr = NoError
  /\ lexer.token.ty = "OpenParen"
  /\ lexer.past_token = NoToken
  /\ lexer.position > lexer.token.end.position
  /\ lexer.line = 2
  /\ RewindRejected(lexer)

\* the kind of the first token of the input s
FirstKind(s) ==
  LET r == next(s, NewLexer)
  IN  IF r.st = "ok" /\ r.val.end.position = Len(s) THEN r.val.ty ELSE "none"

\* C26: whenever an unsigned run is classified Float, the same run behind a
\* '+' and behind a '-' is classified Float as well.
C26_FloatWithSign ==
  HoldsRun =>
    LET run == current_token_content(source, lexer)
    IN  (lexer.token.ty = "Float" /\ ~GSigned(run)) =>
          /\ FirstKind(<<43>> \o run) = "Float"
          /\ FirstKind(<<45>> \o run) = "Float"

\* the number of continuation bytes a lead byte b >= 0x80 asks for, 0 when b
\* is no lead byte
GContinuations(b) ==
  IF b < 192 \/ b >= 248 THEN 0
  ELSE IF b < 224 THEN 1
  ELSE IF b < 240 THEN 2
  ELSE 3

\* the bytes of s from index i on hold no control byte, no 0x7F, and every
\* byte >= 0x80 belongs to a lead byte with its continuation bytes 10xxxxxx
RECURSIVE GBytesValid(_, _)
GBytesValid(s, i) ==
  IF i > Len(s) THEN TRUE
  ELSE IF s[i] < 32 \/ s[i] = 127 THEN FALSE
  ELSE IF s[i] < 128 THEN GBytesValid(s, i + 1)
  ELSE LET n == GContinuations(s[i])
       IN  /\ n > 0
           /\ i + n <= Len(s)
           /\ \A k \in (i + 1)..(i + n) : s[k] \in 128..191
           /\ GBytesValid(s, i + n + 1)

\* C27: the bytes between the quotes of every String token hold no raw
\* control byte, no 0x7F, and only well-formed sequences of bytes >= 0x80.
C27_StringBytesValidated ==
  (~aborted /\ lexer.token # NoToken /\ lexer.token.ty = "String") =>
    LET content == current_token_content(source, lexer)
    IN  GBytesValid(SubSeq(content, 2, Len(content) - 1), 1)

(***************************************************************************)
(* The parser on one function body: an instruction and what follows it.    *)
(***************************************************************************)
MaxArgs == 3

lx_neg    == <<45, 49>>                                  \* -1
lx_nan    == <<110, 97, 110>>                            \* nan
lx_offset == pre_offset \o <<49>>                        \* offset=1
lx_upper  == <<65>>                                      \* A  (Reserved)
lx_long   == <<49, 50, 51, 52, 53, 54, 55, 56, 57, 48>>  \* 1234567890

\* the lexemes that follow the instruction keyword; flags= is no memarg flag
ArgLexemes ==
  { lx_id, lx_one, lx_neg, lx_nan, lx_offset, pre_flags, lx_nop, lx_open,
    lx_close, lx_str, lx_upper, lx_long }

ArgSources == {Join(HdFunc \o <<lx_nop>> \o t) : t \in SeqsUpTo(ArgLexemes, MaxArgs)}

InitArg ==
  /\ source \in ArgSources
  /\ lexer = NewLexer
  /\ state = StInitial
  /\ func_depth = NoneU32
  /\ output = <<>>
  /\ aborted = FALSE
  /\ lexErr = NoError
  /\ prev = NewParser

SpecArg == InitArg /\ [][Next]_vars

\* the token tok of src is an argument: ID, Unsigned, Signed, Float, or a
\* keyword offset=.. longer than 7 or flags=.. longer than 6 bytes
GIsArg(src, tok) ==
  \/ tok.ty \in {"ID", "Unsigned", "Signed", "Float"}
  \/ /\ tok.ty = "Keyword"
     /\ LET c == SubSeq(src, tok.start.position + 1, tok.end.position)
        IN  \/ Len(c) > 7 /\ SubSeq(c, 1, 7) = <<111, 102, 102, 115, 101, 116, 61>>
            \/ Len(c) > 6 /\ SubSeq(c, 1, 6) = <<102, 108, 97, 103, 115, 61>>

\* the maximal run of argument tokens read from the lexer L on, and the token
\* that stops it (NoToken when the lexer fails there)
RECURSIVE GArgRun(_, _, _)
GArgRun(src, L, toks) ==
  LET r == next(src, L)
  IN  IF r.st # "ok" THEN [toks |-> toks, stop |-> NoToken]
      ELSE IF GIsArg(src, r.val) THEN GArgRun(src, r.lx, Append(toks, r.val))
      ELSE [toks |-> toks, stop |-> r.val]

\* the argument arg is the one of the token tok
GArgOf(src, arg, tok) ==
  LET c == SubSeq(src, tok.start.position + 1, tok.end.position)
  IN  IF tok.ty = "Keyword" THEN arg.tag = "Flags" /\ arg.keyword = c
      ELSE IF tok.ty = "ID" THEN arg.tag = "ID" /\ arg.id = c
      ELSE arg.tag = tok.ty

\* the lexer whose current token is the instruction keyword of the step that
\* reads an instruction from the parser P; NoToken as its token when the step
\* reads no instruction
GAtInstruction(src, P) ==
  IF P.lexer.token.ty = "Keyword" THEN P.lexer
  ELSE IF P.lexer.token.ty = "OpenParen"
       THEN LET r == next(src, P.lexer)
            IN  IF r.st = "ok" /\ r.val.ty = "Keyword" THEN r.lx
                ELSE [P.lexer EXCEPT !.token = NoToken]
  ELSE [P.lexer EXCEPT !.token = NoToken]

\* C22: the args of a CodeOperator are the maximal run of ID, Unsigned,
\* Signed, Float and memarg-flag tokens after the instruction keyword, in
\* order; the token that ends the run is an OpenParen, CloseParen, End or
\* other Keyword and stays the current token; a String or Reserved token at
\* the end of the run makes the step return Error.
C22_ArgsAreMaximalRun ==
  (~aborted /\ state.kind \in BodyStates) =>
    LET at == GAtInstruction(source, Parser)
    IN  at.token # NoToken =>
          LET run == GArgRun(source, at, <<>>)
              r   == parse(source, Parser)
          IN  /\ (r.st = "ok" /\ r.P.state.kind = "CodeOperator") =>
                   /\ Len(r.P.state.args) = Len(run.toks)
                   /\ \A i \in 1..Len(run.toks) :
                        GArgOf(source, r.P.state.args[i], run.toks[i])
                   /\ run.stop.ty \in {"OpenParen", "CloseParen", "End", "Keyword"}
                   /\ r.P.lexer.token = run.stop
              /\ run.stop.ty \in {"String", "Reserved"} =>
                   r.st = "ok" /\ r.P.state.kind = "Error"

(***************************************************************************)
(* The parser on one instruction with one integer literal.                 *)
(***************************************************************************)
MaxNum == 3

\* 0 1 _ 256 65 536 9999 99999 0x
NumPieces ==
  { <<48>>, <<49>>, <<95>>, <<50, 53, 54>>, <<54, 53>>, <<53, 51, 54>>,
    <<57, 57, 57, 57>>, <<57, 57, 57, 57, 57>>, <<48, 120>> }

\* no sign, + and -
NumSigns == { <<>>, <<43>>, <<45>> }

NumSources ==
  { Join(HdFunc \o <<lx_nop>>) \o <<32>> \o s \o Concat(p) :
      s \in NumSigns, p \in SeqsUpTo(NumPieces, MaxNum) \ {<<>>} }

InitNum ==
  /\ source \in NumSources
  /\ lexer = NewLexer
  /\ state = StInitial
  /\ func_depth = NoneU32
  /\ output = <<>>
  /\ aborted = FALSE
  /\ lexErr = NoError
  /\ prev = NewParser

SpecNum == InitNum /\ [][Next]_vars

\* the halves from which the sample of u32 values is built
GHalves == {0, 1, 255, 256, 257, 65535}

\* data is the minimal little-endian byte string of the u32 with the halves
\* hi and lo
GMinimalLE(data, hi, lo) ==
  LET byte(i) == IF i <= Len(data) THEN data[i] ELSE 0
  IN  /\ Len(data) \in 1..4
      /\ \A i \in 1..Len(data) : data[i] \in 0..255
      /\ byte(1) + 256 * byte(2) = lo
      /\ byte(3) + 256 * byte(4) = hi
      /\ (Len(data) > 1 => data[Len(data)] # 0)

\* s without its '_' bytes
GDigitsOf(s) == SelectSeq(s, LAMBDA b : b # 95)

\* the value of a sequence of at most 9 decimal digits
RECURSIVE GValue(_)
GValue(d) ==
  IF d = <<>> THEN 0
  ELSE 10 * GValue(SubSeq(d, 1, Len(d) - 1)) + (d[Len(d)] - 48)

\* C28: convert_u32_to_data gives the minimal little-endian bytes of every
\* u32, and the argument of an Unsigned or Signed decimal literal of at most
\* 9 digits carries the minimal little-endian bytes of the literal's value.
C28_LittleEndianData ==
  /\ \A hi \in GHalves, lo \in GHalves :
       LET d == convert_u32_to_data([some |-> TRUE, v |-> U32(hi, lo)])
       IN  d.some /\ GMinimalLE(d.v, hi, lo)
  /\ (~aborted /\ state.kind = "StartFunc" /\ lexer.token.ty = "Keyword") =>
       LET lit == next(source, lexer)
           r   == parse(source, Parser)
       IN  (lit.st = "ok" /\ lit.val.ty \in {"Unsigned", "Signed"}) =>
             LET c == current_token_content(source, lit.lx)
                 m == IF lit.val.ty = "Signed" THEN GAfter(c, 1) ELSE c
                 n == GValue(GDigitsOf(m))
             IN  (GNum(m) /\ Len(GDigitsOf(m)) <= 9) =>
                   /\ r.st = "ok"
                   /\ r.P.state.kind = "CodeOperator"
                   /\ Len(r.P.state.args) = 1
                   /\ r.P.state.args[1].tag = lit.val.ty
                   /\ GMinimalLE(r.P.state.args[1].data, n \div 65536, n % 65536)

\* the string contents that go on at offset i of src reach the end of the
\* input: no '"' outside an escape follows
RECURSIVE GUnclosed(_, _)
GUnclosed(src, i) ==
  IF i >= Len(src) THEN TRUE
  ELSE IF src[i + 1] = 34 THEN FALSE
  ELSE IF src[i + 1] = 92 THEN GUnclosed(src, i + 2)
  ELSE GUnclosed(src, i + 1)

\* the failed call r of next() on the lexer L produced no token
GNoToken(L, r) ==
  r.st = "err" /\ r.lx.token = L.token /\ r.lx.past_token = L.past_token

\* C29: when the input ends inside the string literal at the cursor, or inside
\* the block comment at the cursor before its level is back at zero, next()
\* fails and leaves the current and the previous token as they are; the error
\* is Unexpected eos for the string, unless a control byte is met before the
\* end, and Incomplete block comment for the comment.
C29_EndInsideStringOrComment ==
  (~aborted /\ lexErr = NoError /\ ~eos(source, lexer)) =>
    LET r == next(source, lexer)
        p == lexer.position
    IN  /\ (current_char(source, lexer) = 34 /\ GUnclosed(source, p + 1)) =>
             /\ GNoToken(lexer, r)
             /\ (\A i \in (p + 2)..Len(source) : source[i] >= 32) =>
                  r.err.message = "Unexpected eos"
        /\ ( /\ current_char(source, lexer) = 40
             /\ has_next_char(source, lexer, 59)
             /\ GCommentEnd(source, p + 2, 1) < 0 ) =>
             /\ GNoToken(lexer, r)
             /\ r.err.message = "Incomplete block comment"

\* the step with the result r, taken from the parser P, has called rewind():
\* its lexer retains no previous token although P held a token and the step
\* has moved the lexer
StepRewound(P, r) ==
  /\ r.st = "ok"
  /\ P.lexer.token # NoToken
  /\ r.P.lexer # P.lexer
  /\ r.P.lexer.past_token = NoToken

\* C30: no step of the parser is aborted by the panic of rewind(), and a step
\* that has called rewind() leaves the '(' it had advanced past as the current
\* token, with the cursor at the start of the token that follows it.
C30_RewindContractKept ==
  (~aborted /\ state.kind \notin {"End", "Error"}) =>
    LET r == parse(source, Parser)
    IN  /\ ~(r.st = "panic" /\ r.err.message = CannotRewind)
        /\ StepRewound(Parser, r) =>
             /\ r.P.lexer.token.ty = "OpenParen"
             /\ r.P.lexer.position >= r.P.lexer.token.end.position
             /\ LET n == next(source, r.P.lexer)
                IN  n.st = "ok" /\ n.lx.past_token = r.P.lexer.token

\* ( module ( func ( import "a" "a" ) ( nop: read_typeuse has rewound to the
\* '(' before nop, and the step has returned Error at that '('
C30_Witness ==
  /\ ~aborted
  /\ state.kind = "Error"
  /\ prev.state.kind = "StartModule"
  /\ prev.lexer.token # NoToken
  /\ lexer.past_token = NoToken
  /\ lexer.token.ty = "OpenParen"
  /\ lexer.position > lexer.token.end.position

(***************************************************************************)
(* The parser on one import: (import .. (memory ..)) and the inline        *)
(* (func (import ..) typeuse).                                             *)
(***************************************************************************)
MaxClose == 3

lx_two     == <<50>>                      \* 2
lx_hex     == <<48, 120, 49>>             \* 0x1
lx_hexname == <<34, 92, 52, 49, 34>>      \* "\41"
lx_uname   == <<34, 92, 117, 123, 52, 49, 125, 34>>   \* "\u{41}"

\* the two names of an import
ImpNames == {<<n1, n2>> : n1 \in {lx_str, lx_hexname}, n2 \in {lx_str, lx_uname}}

\* the optional id
ImpIds == { <<>>, <<lx_id>> }

\* 1, 1 2, (shared 1), (shared 1 2), (shared 1 without its ')', 0x1
MemTypes ==
  { <<lx_one>>, <<lx_one, lx_two>>,
    <<lx_open, kw_shared, lx_one, lx_close>>,
    <<lx_open, kw_shared, lx_one, lx_two, lx_close>>,
    <<lx_open, kw_shared, lx_one>>,
    <<lx_hex>> }

TuType   == <<lx_open, kw_type, lx_id, lx_close>>
TuParam  == <<lx_open, kw_param, kw_i32, lx_close>>
TuResult == <<lx_open, kw_result, kw_f32, lx_close>>

\* the typeuses of an inline import
Typeuses ==
  { <<>>, TuType, TuParam, TuResult, TuType \o TuParam \o TuResult,
    <<lx_open, kw_param, lx_id, kw_i32, lx_close>>,
    <<lx_open, kw_param, lx_i64, lx_close>>,
    <<lx_open, kw_result, kw_f64, lx_close>> }

\* what follows the import: ')' and instructions
Closers == SeqsUpTo({lx_close, lx_nop}, MaxClose)

ImpSources ==
  { Join(HdModule \o <<lx_open, kw_import>> \o n \o <<lx_open, kw_memory>>
         \o id \o mt \o c) :
      n \in ImpNames, id \in ImpIds, mt \in MemTypes, c \in Closers }
  \cup
  { Join(HdFunc \o id \o <<lx_open, kw_import>> \o n \o <<lx_close>> \o tu \o c) :
      n \in ImpNames, id \in ImpIds, tu \in Typeuses, c \in Closers }

InitImp ==
  /\ source \in ImpSources
  /\ lexer = NewLexer
  /\ state = StInitial
  /\ func_depth = NoneU32
  /\ output = <<>>
  /\ aborted = FALSE
  /\ lexErr = NoError
  /\ prev = NewParser

SpecImp == InitImp /\ [][Next]_vars

\* the i-th of the tokens T, NoToken past their end
GTok(T, i) == IF i \in 1..Len(T) THEN T[i] ELSE NoToken

GTy(T, i) == GTok(T, i).ty

\* the bytes of the i-th of the tokens T of src
GContent(src, T, i) ==
  SubSeq(src, GTok(T, i).start.position + 1, GTok(T, i).end.position)

\* the i-th token is the keyword kw
GIsKw(src, T, i, kw) == GTy(T, i) = "Keyword" /\ GContent(src, T, i) = kw

\* the name a String token stands for
GName(src, T, i) ==
  LET c == GContent(src, T, i)
  IN  GDecode(SubSeq(c, 2, Len(c) - 1), 1, <<>>).val

\* the u32 an Unsigned token stands for (values below 2^31)
GLiteral(src, T, i) ==
  LET c == GDigitsOf(GContent(src, T, i))
      v == IF GHasPrefix(c, <<48, 120>>) THEN GHexNumber(GAfter(c, 2)) ELSE GValue(c)
  IN  U32(v \div 65536, v % 65536)

\* the limits written from the k-th token on: min [max]
GLimits(src, T, k) ==
  IF GTy(T, k) # "Unsigned" THEN [ok |-> FALSE]
  ELSE IF GTy(T, k + 1) = "Unsigned"
       THEN [ok |-> TRUE, next |-> k + 2,
             val |-> [min |-> GLiteral(src, T, k),
                      max |-> [some |-> TRUE, v |-> GLiteral(src, T, k + 1)]]]
  ELSE [ok |-> TRUE, next |-> k + 1,
        val |-> [min |-> GLiteral(src, T, k), max |-> NoNumber]]

\* the memtype written from the k-th token on: limits or (shared limits)
GMemtype(src, T, k) ==
  IF GTy(T, k) = "OpenParen"
  THEN LET l == GLimits(src, T, k + 2)
       IN  IF GIsKw(src, T, k + 1, kw_shared) /\ l.ok /\ GTy(T, l.next) = "CloseParen"
           THEN [ok |-> TRUE, next |-> l.next + 1,
                 val |-> [limits |-> l.val, shared |-> TRUE]]
           ELSE [ok |-> FALSE]
  ELSE LET l == GLimits(src, T, k)
       IN  IF l.ok THEN [ok |-> TRUE, next |-> l.next,
                         val |-> [limits |-> l.val, shared |-> FALSE]]
           ELSE [ok |-> FALSE]

\* C23: a field (import mod field (memory [id] memtype)) yields the Import
\* event with the two decoded names and Memory{id, memtype}: shared iff the
\* limits are written (shared ..), min the first literal, max the second if
\* there is one; when one of the two ')' is missing the step returns Error.
C23_MemoryImport ==
  (~aborted /\ state.kind \in FieldStates /\ lexer.token.ty = "OpenParen") =>
    LET T == TokensFrom(source, lexer)
        r == parse(source, Parser)
        k == IF GTy(T, 6) = "ID" THEN 7 ELSE 6
        m == GMemtype(source, T, k)
    IN  ( /\ GIsKw(source, T, 1, kw_import)
          /\ GTy(T, 2) = "String" /\ GTy(T, 3) = "String"
          /\ GTy(T, 4) = "OpenParen" /\ GIsKw(source, T, 5, kw_memory)
          /\ m.ok ) =>
          /\ r.st = "ok"
          /\ IF GTy(T, m.next) = "CloseParen" /\ GTy(T, m.next + 1) = "CloseParen"
             THEN r.P.state =
                    StImport(GName(source, T, 2), GName(source, T, 3),
                             [kind |-> "Memory",
                              id |-> IF k = 7 THEN Some(GContent(source, T, 6)) ELSE None,
                              memtype |-> m.val])
             ELSE r.P.state.kind = "Error"

\* the value types written from the k-th token on, as far as they go
RECURSIVE GValtypeRun(_, _, _)
GValtypeRun(src, T, k) ==
  IF GTy(T, k) = "Keyword" /\ GValtype(GContent(src, T, k)) # "none"
  THEN <<GValtype(GContent(src, T, k))>> \o GValtypeRun(src, T, k + 1)
  ELSE <<>>

\* the groups (kw [id] valtype) and (kw valtype+) written from the k-th token
\* on, an id only where with_id: [ok, items, next]
RECURSIVE GGroups(_, _, _, _, _, _)
GGroups(src, T, k, kw, with_id, items) ==
  IF ~(GTy(T, k) = "OpenParen" /\ GIsKw(src, T, k + 1, kw))
  THEN [ok |-> TRUE, items |-> items, next |-> k]
  ELSE IF with_id /\ GTy(T, k + 2) = "ID"
       THEN LET vt == GValtypeRun(src, T, k + 3)
            IN  IF Len(vt) = 1 /\ GTy(T, k + 4) = "CloseParen"
                THEN GGroups(src, T, k + 5, kw, with_id,
                             Append(items, [id |-> Some(GContent(src, T, k + 2)),
                                            valtype |-> vt[1]]))
                ELSE [ok |-> FALSE, items |-> items, next |-> k]
  ELSE LET vt == GValtypeRun(src, T, k + 2)
       IN  IF Len(vt) > 0 /\ GTy(T, k + 2 + Len(vt)) = "CloseParen"
           THEN GGroups(src, T, k + 3 + Len(vt), kw, with_id,
                        items \o [i \in 1..Len(vt) |->
                                    IF with_id THEN [id |-> None, valtype |-> vt[i]]
                                    ELSE [valtype |-> vt[i]]])
           ELSE [ok |-> FALSE, items |-> items, next |-> k]

\* the typeuse written from the k-th token on: [(type id)] params results
GTypeuse(src, T, k) ==
  LET typed == /\ GTy(T, k) = "OpenParen" /\ GIsKw(src, T, k + 1, kw_type)
               /\ GTy(T, k + 2) = "ID" /\ GTy(T, k + 3) = "CloseParen"
      k1 == IF typed THEN k + 4 ELSE k
      p  == GGroups(src, T, k1, kw_param, TRUE, <<>>)
      q  == GGroups(src, T, p.next, kw_result, FALSE, <<>>)
  IN  [ok |-> p.ok /\ q.ok, next |-> q.next,
       val |-> WatTypeuse(IF typed THEN Some(GContent(src, T, k + 2)) ELSE None,
                          p.items, q.items)]

\* C24: a field (func [id] (import mod field) typeuse) yields in one step the
\* Import event with Func{id, typeuse}; func_depth stays None, the ')' of the
\* func is consumed, and the next step reads a module field.
C24_InlineFuncImport ==
  (~aborted /\ state.kind \in FieldStates /\ lexer.token.ty = "OpenParen") =>
    LET T == TokensFrom(source, lexer)
        r == parse(source, Parser)
        k == IF GTy(T, 2) = "ID" THEN 3 ELSE 2
        tu == GTypeuse(source, T, k + 5)
    IN  ( /\ GIsKw(source, T, 1, kw_func)
          /\ GTy(T, k) = "OpenParen" /\ GIsKw(source, T, k + 1, kw_import)
          /\ GTy(T, k + 2) = "String" /\ GTy(T, k + 3) = "String"
          /\ GTy(T, k + 4) = "CloseParen"
          /\ tu.ok /\ GTy(T, tu.next) = "CloseParen" ) =>
          /\ r.st = "ok"
          /\ r.P.state =
               StImport(GName(source, T, k + 2), GName(source, T, k + 3),
                        [kind |-> "Func",
                         id |-> IF k = 3 THEN Some(GContent(source, T, 2)) ELSE None,
                         typeuse |-> tu.val])
          /\ r.P.func_depth = NoneU32
          /\ r.P.lexer.token = GTok(T, tu.next + 1)
          /\ dispatch(source, r.P) = read_module_field(source, r.P)

\* the u32 written by the digits d of the given radix, read from the left
\* with the value so far in acc: [fits, val], fits = FALSE past 2^32 - 1
RECURSIVE GU32Digits(_, _, _)
GU32Digits(d, radix, acc) ==
  IF d = <<>> THEN [fits |-> TRUE, val |-> acc]
  ELSE LET lo == acc.lo * radix + HexValue(d[1])
           hi == acc.hi * radix + lo \div 65536
       IN  IF hi >= 65536 THEN [fits |-> FALSE, val |-> acc]
           ELSE GU32Digits(Tail(d), radix, U32(hi, lo % 65536))

\* the u32 an integer literal stands for: 0x hexnum or num, '_' left out
GU32Literal(c) ==
  IF GHasPrefix(c, <<48, 120>>)
  THEN GU32Digits(GDigitsOf(GAfter(c, 2)), 16, U32(0, 0))
  ELSE GU32Digits(GDigitsOf(c), 10, U32(0, 0))

\* C31: an Unsigned token whose value fits in u32 is read by read_u32 as
\* that value, and as an instruction argument it gives the little-endian
\* bytes of that value; neither returns an error or aborts.
C31_IntegerLiteralsAgree ==
  (~aborted /\ state.kind = "StartFunc" /\ lexer.token.ty = "Keyword") =>
    LET lit == next(source, lexer)
        r   == parse(source, Parser)
    IN  (lit.st = "ok" /\ lit.val.ty = "Unsigned") =>
          LET c == current_token_content(source, lit.lx)
              n == GU32Literal(c)
              limit == read_u32(source, [Parser EXCEPT !.lexer = lit.lx])
          IN  (GNumber(c) /\ n.fits) =>
                /\ limit.st = "ok"
                /\ limit.val = n.val
                /\ r.st = "ok"
                /\ r.P.state.kind = "CodeOperator"
                /\ Len(r.P.state.args) = 1
                /\ r.P.state.args[1].tag = "Unsigned"
                /\ GMinimalLE(r.P.state.args[1].data, n.val.hi, n.val.lo)

====
